---- MODULE Spec2Model ----
(***************************************************************************)
(* Model of the PanKbase functional-data engine:                           *)
(*   app/services/data_loader.py    (DataLoader: load, merge, reload)      *)
(*   app/services/filter_service.py (FilterService.apply_filters)          *)
(*   app/services/analysis_service.py (AnalysisService: the four tests)    *)
(*   app/utils/statistics.py        (pearson_confidence_interval)          *)
(*   app/main.py                    (lifespan)                             *)
(* A DataFrame is a record [columns, rows]; rows is a sequence of          *)
(* functions from column names to cells.  A cell is NaN, a number, a       *)
(* string (a sequence of characters) or a boolean.                         *)
(***************************************************************************)
EXTENDS Integers, Sequences, FiniteSets, TLC

VARIABLES files, _instance, _initialized, _donor_df, _biosample_df, _traits_df, _merged_df, pc, call

vars == <<files, _instance, _initialized, _donor_df, _biosample_df, _traits_df, _merged_df, pc, call>>

(***************************************************************************)
(* Bounds of the explored inputs.                                          *)
(***************************************************************************)
MaxDonors == 2
MaxTraits == 2
MaxBiosamples == 2
MaxFilterDonors == 2

(***************************************************************************)
(* Cells and Python values.                                                *)
(***************************************************************************)
NaN == [k |-> "nan"]
None == [k |-> "None"]
Num(n) == [k |-> "num", v |-> n]
Str(s) == [k |-> "str", v |-> s]
Bool(b) == [k |-> "bool", v |-> b]

\* pd.isna(val): NaN and None are both missing values
isna(val) == val = NaN \/ val = None

\* a file that does not exist (path.exists() is False)
MISSING == [k |-> "missing"]

DataFrame(cols, rws) == [columns |-> cols, rows |-> rws]

\* len(df)
len(df) == Len(df.rows)

(***************************************************************************)
(* Strings: sequences of characters.                                       *)
(***************************************************************************)
Upper == <<"A", "E", "F", "L", "M", "R", "S", "T", "U", "X", "Y">>
LowerOf == <<"a", "e", "f", "l", "m", "r", "s", "t", "u", "x", "y">>
Digits == <<"0", "1", "2", "3", "4", "5", "6", "7", "8", "9">>

IndexIn(c, seq) == IF \E i \in DOMAIN seq : seq[i] = c
                   THEN CHOOSE i \in DOMAIN seq : seq[i] = c
                   ELSE 0

\* str.lower() on one character
LowerChar(c) == IF IndexIn(c, Upper) > 0 THEN LowerOf[IndexIn(c, Upper)] ELSE c

\* str.lower()
lower(s) == [i \in DOMAIN s |-> LowerChar(s[i])]

RECURSIVE lstrip(_)
lstrip(s) == IF s # <<>> /\ Head(s) = " " THEN lstrip(Tail(s)) ELSE s

RECURSIVE rstrip(_)
rstrip(s) == IF s # <<>> /\ s[Len(s)] = " " THEN rstrip(SubSeq(s, 1, Len(s) - 1)) ELSE s

\* str.strip()
strip(s) == rstrip(lstrip(s))

\* code point order of the characters the model uses (space < digits < upper < lower)
Ord(c) == IF c = " " THEN 1
          ELSE IF c = "-" THEN 2
          ELSE IF IndexIn(c, Digits) > 0 THEN 10 + IndexIn(c, Digits)
          ELSE IF IndexIn(c, Upper) > 0 THEN 30 + IndexIn(c, Upper)
          ELSE IF IndexIn(c, LowerOf) > 0 THEN 60 + IndexIn(c, LowerOf)
          ELSE 90

\* s < t for Python strings
RECURSIVE StrLess(_, _)
StrLess(s, t) == IF t = <<>> THEN FALSE
                 ELSE IF s = <<>> THEN TRUE
                 ELSE IF Ord(Head(s)) # Ord(Head(t)) THEN Ord(Head(s)) < Ord(Head(t))
                 ELSE StrLess(Tail(s), Tail(t))

IsDigits(s) == s # <<>> /\ \A i \in DOMAIN s : IndexIn(s[i], Digits) > 0

RECURSIVE DecimalValue(_)
DecimalValue(s) == IF s = <<>> THEN 0
                   ELSE 10 * DecimalValue(SubSeq(s, 1, Len(s) - 1)) + (IndexIn(s[Len(s)], Digits) - 1)

Dash == <<"-">>
StrTRUE == <<"T", "R", "U", "E">>
StrFALSE == <<"F", "A", "L", "S", "E">>

\* Series.replace('-', np.nan) / replace('', np.nan) on one cell
ReplaceDash(cell) == IF cell = Str(Dash) \/ cell = Str(<<>>) THEN NaN ELSE cell

\* pd.to_numeric(..., errors='coerce') on one cell
to_numeric(cell) == IF cell.k = "num" THEN cell
                    ELSE IF cell.k = "bool" THEN Num(IF cell.v THEN 1 ELSE 0)
                    ELSE IF cell.k = "str" /\ IsDigits(strip(cell.v)) THEN Num(DecimalValue(strip(cell.v)))
                    ELSE NaN

\* Series.map({'TRUE': True, 'FALSE': False, 'true': True, 'false': False, '-': None, '': None})
BoolMap(cell) == IF cell = Str(StrTRUE) \/ cell = Str(lower(StrTRUE)) THEN Bool(TRUE)
                 ELSE IF cell = Str(StrFALSE) \/ cell = Str(lower(StrFALSE)) THEN Bool(FALSE)
                 ELSE NaN

(***************************************************************************)
(* Column names.                                                           *)
(***************************************************************************)
DonorColumns == {"RRID", "Accession", "Gender", "Age (years)", "Multi AAB"}
DonorNumericCols == {"Age (years)"}
DonorBoolCols == {"Multi AAB"}
TraitFileColumns == {"Donor ID", "INS-IEQ Basal Secretion"}
BiosampleColumns == {"Donors", "Isolation_center", "Purity (Percentage)"}
BiosampleNumericCols == {"Purity (Percentage)"}

\* f'biosample_{c}'
BiosamplePrefix(c) == "biosample_" \o c

(***************************************************************************)
(* Loading: DataLoader._load_donor_metadata, _load_biosample_metadata,     *)
(* _load_traits.  Each takes the parsed text table of an existing file.    *)
(***************************************************************************)
LoadDonorCell(col, cell) ==
    IF col \in DonorNumericCols THEN to_numeric(ReplaceDash(cell))
    ELSE IF col \in DonorBoolCols THEN BoolMap(cell)
    ELSE ReplaceDash(cell)

_load_donor_metadata(file) ==
    DataFrame(file.columns,
              [i \in DOMAIN file.rows |->
                 [c \in file.columns |-> LoadDonorCell(c, file.rows[i][c])]])

LoadBiosampleCell(col, cell) ==
    IF col \in BiosampleNumericCols THEN to_numeric(ReplaceDash(cell))
    ELSE ReplaceDash(cell)

_load_biosample_metadata(file) ==
    DataFrame(file.columns,
              [i \in DOMAIN file.rows |->
                 [c \in file.columns |-> LoadBiosampleCell(c, file.rows[i][c])]])

\* rename(columns={'Donor ID': 'RRID'})
TraitRename(c) == IF c = "Donor ID" THEN "RRID" ELSE c
TraitUnrename(c, cols) == IF c = "RRID" /\ "Donor ID" \in cols THEN "Donor ID" ELSE c

_load_traits(file) ==
    LET cols == {TraitRename(c) : c \in file.columns}
    IN DataFrame(cols,
                 [i \in DOMAIN file.rows |->
                    [c \in cols |->
                       IF c \in {"RRID", "HPAP ID"}
                       THEN file.rows[i][TraitUnrename(c, file.columns)]
                       ELSE to_numeric(file.rows[i][TraitUnrename(c, file.columns)])]])

\* DataLoader.get_trait_columns
get_trait_columns(traits) ==
    IF traits = None THEN {} ELSE traits.columns \ {"RRID", "HPAP ID"}

(***************************************************************************)
(* Merging: DataFrame.merge and groupby(...).first() as pandas computes    *)
(* them, and DataLoader._create_merged_dataframe.                          *)
(***************************************************************************)
RECURSIVE Flatten(_)
Flatten(ss) == IF ss = <<>> THEN <<>> ELSE Head(ss) \o Flatten(Tail(ss))

\* the row of the join made of a left row and a right row
JoinRow(cols, l, lcols, r) == [c \in cols |-> IF c \in lcols THEN l[c] ELSE r[c]]

\* a left row without a match: right columns are NaN
PadRow(cols, l, lcols) == [c \in cols |-> IF c \in lcols THEN l[c] ELSE NaN]

\* left.merge(right, on=key, how='inner')
InnerMerge(left, right, key) ==
    LET cols == left.columns \cup right.columns
        Matches(l) == LET M(r) == r[key] = l[key] IN SelectSeq(right.rows, M)
        RowsFor(l) == [j \in DOMAIN Matches(l) |-> JoinRow(cols, l, left.columns, Matches(l)[j])]
    IN DataFrame(cols, Flatten([i \in DOMAIN left.rows |-> RowsFor(left.rows[i])]))

\* LeftMerge with how='inner': a left row without a match is dropped
LeftMerge_DropUnmatched(left, right, key) == InnerMerge(left, right, key)

\* left.merge(right, on=key, how='left')
LeftMerge(left, right, key) ==
    LET cols == left.columns \cup right.columns
        Matches(l) == LET M(r) == r[key] = l[key] IN SelectSeq(right.rows, M)
        RowsFor(l) == IF Matches(l) = <<>>
                      THEN <<PadRow(cols, l, left.columns)>>
                      ELSE [j \in DOMAIN Matches(l) |-> JoinRow(cols, l, left.columns, Matches(l)[j])]
    IN DataFrame(cols, Flatten([i \in DOMAIN left.rows |-> RowsFor(left.rows[i])]))

\* the strings of a set in ascending order
RECURSIVE SortedStrs(_)
SortedStrs(S) == IF S = {} THEN <<>>
                 ELSE LET m == CHOOSE x \in S : \A y \in S \ {x} : StrLess(x.v, y.v)
                      IN <<m>> \o SortedStrs(S \ {m})

\* first non-null value of a column among the rows of a group (GroupBy.first)
RECURSIVE FirstNonNull(_, _)
FirstNonNull(rws, col) == IF rws = <<>> THEN NaN
                          ELSE IF ~isna(Head(rws)[col]) THEN Head(rws)[col]
                          ELSE FirstNonNull(Tail(rws), col)

\* the groups of df.groupby(key): rows with a NaN key belong to no group
GroupKeys(df, key) == {df.rows[i][key] : i \in {j \in DOMAIN df.rows : ~isna(df.rows[j][key])}}

\* GroupByFirst without the aggregation: every biosample record stays a row
GroupByFirst_NoAggregation(df, key) ==
    LET G(r) == ~isna(r[key]) IN DataFrame(df.columns, SelectSeq(df.rows, G))

\* df.groupby(key).first().reset_index()
GroupByFirst(df, key) ==
    LET keys == SortedStrs(GroupKeys(df, key))
        Group(kv) == LET G(r) == r[key] = kv IN SelectSeq(df.rows, G)
    IN DataFrame(df.columns,
                 [i \in DOMAIN keys |->
                    [c \in df.columns |->
                       IF c = key THEN keys[i] ELSE FirstNonNull(Group(keys[i]), c)]])

\* rename 'Donors' to 'Accession' and prefix the other columns
BiosampleRename(c) == IF c = "Donors" THEN "Accession" ELSE BiosamplePrefix(c)

RenameBiosample(df) ==
    LET Back(c) == CHOOSE o \in df.columns : BiosampleRename(o) = c
        cols == {BiosampleRename(c) : c \in df.columns}
    IN DataFrame(cols, [i \in DOMAIN df.rows |-> [c \in cols |-> df.rows[i][Back(c)]]])

\* DataLoader._create_merged_dataframe: the value of _merged_df afterwards
_create_merged_dataframe(donor, biosample, traits, merged) ==
    IF donor = None \/ traits = None THEN merged
    ELSE LET dt == InnerMerge(donor, traits, "RRID")
         IN IF biosample # None
            THEN LeftMerge(dt, RenameBiosample(GroupByFirst(biosample, "Donors")), "Accession")
            ELSE dt

(***************************************************************************)
(* The data files.  A file is MISSING or the text table read_csv returns   *)
(* (every cell a string).                                                   *)
(***************************************************************************)
D1 == <<"d", "1">>
D2 == <<"d", "2">>
D3 == <<"d", "3">>
DonorIds == {D1, D2, D3}

\* the accession of a donor
Accession(id) == <<"a", id[2]>>

DonorRow(id, gender, age, multi) ==
    [c \in DonorColumns |->
       IF c = "RRID" THEN Str(id)
       ELSE IF c = "Accession" THEN Str(Accession(id))
       ELSE IF c = "Gender" THEN Str(gender)
       ELSE IF c = "Age (years)" THEN Str(age)
       ELSE Str(multi)]

TraitRow(id, value) ==
    [c \in TraitFileColumns |-> IF c = "Donor ID" THEN Str(id) ELSE Str(value)]

BiosampleRow(donors, center, purity) ==
    [c \in BiosampleColumns |->
       IF c = "Donors" THEN Str(donors)
       ELSE IF c = "Isolation_center" THEN Str(center)
       ELSE Str(purity)]

\* sequences of at most n elements of S
SeqsUpTo(S, n) == UNION {[1..m -> S] : m \in 0..n}

\* the ids of a source appear once each (spec section 3: one record per donor)
Ascending(ids) == \A i \in DOMAIN ids : \A j \in DOMAIN ids : i < j => StrLess(ids[i], ids[j])

IdLists(n) == {ids \in SeqsUpTo(DonorIds, n) : Ascending(ids)}

\* donor file of the loader runs: one fixed profile per donor
DefaultDonorRow(id) ==
    IF id = D1 THEN DonorRow(id, <<"F">>, <<"1">>, StrTRUE)
    ELSE IF id = D2 THEN DonorRow(id, <<"m">>, Dash, StrFALSE)
    ELSE DonorRow(id, Dash, <<"2">>, Dash)

DonorFiles == {DataFrame(DonorColumns, [i \in DOMAIN ids |-> DefaultDonorRow(ids[i])]) :
                 ids \in IdLists(MaxDonors)}

TraitFiles == {DataFrame(TraitFileColumns, [i \in DOMAIN ids |-> TraitRow(ids[i], <<"1">>)]) :
                 ids \in IdLists(MaxTraits)}

\* records of donor d1 with and without values, one of donor d2, one of no donor
BiosampleRecords ==
    {BiosampleRow(Accession(D1), center, purity) : center \in {Dash, <<"X">>}, purity \in {Dash, <<"1">>}}
    \cup {BiosampleRow(Accession(D2), <<"Y">>, <<"2">>), BiosampleRow(Dash, <<"X">>, <<"1">>)}

BiosampleFiles == {DataFrame(BiosampleColumns, rws) : rws \in SeqsUpTo(BiosampleRecords, MaxBiosamples)}

(***************************************************************************)
(* Requests (FilterRequest, RangeFilter).                                  *)
(***************************************************************************)
List(xs) == [k |-> "list", v |-> xs]

RangeFilter(lo, hi) == [k |-> "RangeFilter", min_value |-> lo, max_value |-> hi]

FilterRequest(gender, isolation_center, age_range, purity_range, multi_aab) ==
    [gender |-> gender, isolation_center |-> isolation_center,
     age_range |-> age_range, purity_range |-> purity_range, multi_aab |-> multi_aab,
     aab_gada_positive |-> None]

\* FilterRequest(): every field None
EmptyRequest == FilterRequest(None, None, None, None, None)

(***************************************************************************)
(* DataLoader operations.                                                  *)
(***************************************************************************)
Loader(d, b, t, m, raised) == [donor |-> d, biosample |-> b, traits |-> t, merged |-> m, raised |-> raised]

\* DataLoader.load_all from the fields d, b, t, m: the fields afterwards and
\* the exception raised, if any
load_all_from(d, b, t, m) ==
    IF files.donor = MISSING THEN Loader(d, b, t, m, "FileNotFoundError")
    ELSE LET d1 == _load_donor_metadata(files.donor)
         IN IF files.biosample = MISSING THEN Loader(d1, b, t, m, "FileNotFoundError")
            ELSE LET b1 == _load_biosample_metadata(files.biosample)
                 IN IF files.traits = MISSING THEN Loader(d1, b1, t, m, "FileNotFoundError")
                    ELSE LET t1 == _load_traits(files.traits)
                         IN Loader(d1, b1, t1, _create_merged_dataframe(d1, b1, t1, m), "none")

\* the merged_df property: the value of _merged_df after the read
merged_df(d, b, t, m) == IF m = None THEN _create_merged_dataframe(d, b, t, m) ELSE m

SetLoader(l) ==
    /\ _donor_df' = l.donor
    /\ _biosample_df' = l.biosample
    /\ _traits_df' = l.traits
    /\ _merged_df' = l.merged

Call(op, request, raised, result) == [op |-> op, request |-> request, raised |-> raised, result |-> result]

\* data_loader = DataLoader() at import: nothing is loaded
\* the object DataLoader._instance holds
Instance == [k |-> "DataLoader"]

InitLoader ==
    /\ _instance = Instance
    /\ _initialized = TRUE
    /\ pc = "idle"
    /\ _donor_df = None
    /\ _biosample_df = None
    /\ _traits_df = None
    /\ _merged_df = None
    /\ call = Call("DataLoader", None, "none", None)

Init ==
    /\ files \in [donor : DonorFiles \cup {MISSING},
                  biosample : BiosampleFiles \cup {MISSING},
                  traits : TraitFiles \cup {MISSING}]
    /\ InitLoader

\* DataLoader.load_all
load_all ==
    LET l == load_all_from(_donor_df, _biosample_df, _traits_df, _merged_df)
    IN /\ SetLoader(l)
       /\ call' = Call("load_all", None, l.raised, None)
       /\ UNCHANGED <<files, _instance, _initialized, pc, _instance, _initialized, pc>>

\* DataLoader.reload
reload ==
    LET l == load_all_from(None, None, None, None)
    IN /\ SetLoader(l)
       /\ call' = Call("reload", None, l.raised, None)
       /\ UNCHANGED <<files, _instance, _initialized, pc, _instance, _initialized, pc>>

\* read of the donor_df property
donor_df ==
    /\ IF _donor_df = None /\ files.donor = MISSING
       THEN /\ call' = Call("donor_df", None, "FileNotFoundError", None)
            /\ UNCHANGED _donor_df
       ELSE /\ _donor_df' = IF _donor_df = None THEN _load_donor_metadata(files.donor) ELSE _donor_df
            /\ call' = Call("donor_df", None, "none", _donor_df')
    /\ UNCHANGED <<files, _instance, _initialized, pc, _biosample_df, _traits_df, _merged_df>>

\* read of the traits_df property
traits_df ==
    /\ IF _traits_df = None /\ files.traits = MISSING
       THEN /\ call' = Call("traits_df", None, "FileNotFoundError", None)
            /\ UNCHANGED _traits_df
       ELSE /\ _traits_df' = IF _traits_df = None THEN _load_traits(files.traits) ELSE _traits_df
            /\ call' = Call("traits_df", None, "none", _traits_df')
    /\ UNCHANGED <<files, _instance, _initialized, pc, _donor_df, _biosample_df, _merged_df>>

\* read of the merged_df property
read_merged_df ==
    /\ _merged_df' = merged_df(_donor_df, _biosample_df, _traits_df, _merged_df)
    /\ call' = Call("merged_df", None, "none", _merged_df')
    /\ UNCHANGED <<files, _instance, _initialized, pc, _donor_df, _biosample_df, _traits_df>>

\* read of the biosample_df property
biosample_df ==
    /\ IF _biosample_df = None /\ files.biosample = MISSING
       THEN /\ call' = Call("biosample_df", None, "FileNotFoundError", None)
            /\ UNCHANGED _biosample_df
       ELSE /\ _biosample_df' = IF _biosample_df = None
                                THEN _load_biosample_metadata(files.biosample) ELSE _biosample_df
            /\ call' = Call("biosample_df", None, "none", _biosample_df')
    /\ UNCHANGED <<files, _instance, _initialized, pc, _donor_df, _traits_df, _merged_df>>

\* DataLoader.__init__ without the _initialized guard
__init___Unguarded(initialized, l) == Loader(None, None, None, None, "none")

\* DataLoader.__init__ on the fields l: they are set to None unless the class
\* is initialized
__init__(initialized, l) == IF initialized THEN l ELSE Loader(None, None, None, None, "none")

\* DataLoader(): __new__ returns the instance of the class, making it when
\* there is none, then __init__ runs on it
DataLoader ==
    /\ _instance' = IF _instance = None THEN Instance ELSE _instance
    /\ SetLoader(__init__(_initialized, Loader(_donor_df, _biosample_df, _traits_df, _merged_df, "none")))
    /\ _initialized' = TRUE
    /\ call' = Call("DataLoader", None, "none", _instance')
    /\ UNCHANGED <<files, pc>>

\* main.lifespan: load_all runs before the application serves; the
\* application does not start when it raises
lifespan ==
    /\ pc = "lifespan"
    /\ LET l == load_all_from(_donor_df, _biosample_df, _traits_df, _merged_df)
       IN /\ SetLoader(l)
          /\ call' = Call("load_all", None, l.raised, None)
          /\ pc' = IF l.raised = "none" THEN "idle" ELSE "exit"
    /\ UNCHANGED <<files, _instance, _initialized>>

\* the application serves requests
Serving == pc \notin {"lifespan", "exit"}

\* DataLoader.reload in a thread of its own, one assignment of lines 303 to
\* 307 at a time; pc is the line the thread runs next, "idle" when no reload
\* is running
reload_clear ==
    /\ pc \in {"idle", "304", "305", "307"}
    /\ _donor_df' = IF pc = "idle" THEN None ELSE _donor_df
    /\ _biosample_df' = IF pc = "304" THEN None ELSE _biosample_df
    /\ _traits_df' = IF pc = "305" THEN None ELSE _traits_df
    /\ _merged_df' = IF pc = "307" THEN None ELSE _merged_df
    /\ pc' = IF pc = "idle" THEN "304" ELSE IF pc = "304" THEN "305"
             ELSE IF pc = "305" THEN "307" ELSE "38"
    /\ UNCHANGED <<files, _instance, _initialized, call>>

\* the load_all of DataLoader.reload (line 308), one line of load_all
\* (38, 39, 40, 42) at a time
reload_load ==
    /\ pc \in {"38", "39", "40", "42"}
    /\ LET missing == \/ pc = "38" /\ files.donor = MISSING
                      \/ pc = "39" /\ files.biosample = MISSING
                      \/ pc = "40" /\ files.traits = MISSING
       IN IF missing
          THEN /\ pc' = "idle"
               /\ call' = Call("reload", None, "FileNotFoundError", None)
               /\ UNCHANGED <<_donor_df, _biosample_df, _traits_df, _merged_df>>
          ELSE /\ _donor_df' = IF pc = "38" THEN _load_donor_metadata(files.donor) ELSE _donor_df
               /\ _biosample_df' = IF pc = "39" THEN _load_biosample_metadata(files.biosample)
                                   ELSE _biosample_df
               /\ _traits_df' = IF pc = "40" THEN _load_traits(files.traits) ELSE _traits_df
               /\ _merged_df' = IF pc = "42"
                                THEN _create_merged_dataframe(_donor_df, _biosample_df, _traits_df, _merged_df)
                                ELSE _merged_df
               /\ pc' = IF pc = "38" THEN "39" ELSE IF pc = "39" THEN "40"
                        ELSE IF pc = "40" THEN "42" ELSE "idle"
               /\ call' = IF pc = "42" THEN Call("reload", None, "none", None) ELSE call
    /\ UNCHANGED <<files, _instance, _initialized>>

(***************************************************************************)
(* FilterService (app/services/filter_service.py).                         *)
(***************************************************************************)
\* mappings of filter fields to DataFrame columns, in the order of the dicts
categorical_mappings == << <<"gender", "Gender">>,
                           <<"isolation_center", "biosample_Isolation_center">> >>
numerical_mappings == << <<"age_range", "Age (years)">>,
                         <<"purity_range", "biosample_Purity (Percentage)">> >>
boolean_mappings == << <<"aab_gada_positive", "AAB GADA POSITIVE">>,
                       <<"multi_aab", "Multi AAB">> >>

\* df[mask]
Filter(df, P(_)) == DataFrame(df.columns, SelectSeq(df.rows, P))

\* str(val) of a string cell
pystr(val) == val.v

\* [str(v).lower().strip() for v in filter_values]
filter_values_lower(filter_values) == [i \in DOMAIN filter_values |-> strip(lower(filter_values[i]))]

\* match_value without .strip() on the row value
match_value_NoStrip(val, values_lower) ==
    IF isna(val) THEN FALSE
    ELSE \E i \in DOMAIN values_lower : values_lower[i] = lower(pystr(val))

\* match_value of _apply_categorical_filters
match_value(val, values_lower) ==
    IF isna(val) THEN FALSE
    ELSE \E i \in DOMAIN values_lower : values_lower[i] = strip(lower(pystr(val)))

\* truth value of an Optional[List[str]]
TruthyList(x) == x # None /\ x.v # <<>>

\* CategoricalStep without the test that the column is in the frame: the
\* values of a column the frame lacks are missing, so no row matches
CategoricalStep_AbsentMatchesNothing(df, filter_request, mapping) ==
    LET filter_values == filter_request[mapping[1]]
        df_column == mapping[2]
    IN IF TruthyList(filter_values)
       THEN LET mask(r) == /\ df_column \in df.columns
                           /\ match_value(r[df_column], filter_values_lower(filter_values.v))
            IN Filter(df, mask)
       ELSE df

\* one iteration of the loop of _apply_categorical_filters
CategoricalStep(df, filter_request, mapping) ==
    LET filter_values == filter_request[mapping[1]]
        df_column == mapping[2]
    IN IF TruthyList(filter_values) /\ df_column \in df.columns
       THEN LET mask(r) == match_value(r[df_column], filter_values_lower(filter_values.v))
            IN Filter(df, mask)
       ELSE df

RECURSIVE CategoricalLoop(_, _, _)
CategoricalLoop(df, filter_request, mappings) ==
    IF mappings = <<>> THEN df
    ELSE CategoricalLoop(CategoricalStep(df, filter_request, Head(mappings)), filter_request, Tail(mappings))

_apply_categorical_filters(df, filter_request) ==
    CategoricalLoop(df, filter_request, categorical_mappings)

\* ~(df[col] < x): keeps the rows whose value is NaN
CellGE_NotLess(val, x) == ~(val.k = "num" /\ val.v < x.v)

\* df[col] >= x on one cell: a comparison with NaN is False
CellGE(val, x) == val.k = "num" /\ val.v >= x.v

\* df[col] < x: an exclusive upper bound
CellLE_Exclusive(val, x) == val.k = "num" /\ val.v < x.v

\* df[col] <= x on one cell: a comparison with NaN is False
CellLE(val, x) == val.k = "num" /\ val.v <= x.v

\* NumericalStep with the max bound applied to the frame it was given, not to
\* the rows the min bound kept
NumericalStep_MaxOnOriginal(df, filter_request, mapping) ==
    LET range_filter == filter_request[mapping[1]]
        df_column == mapping[2]
    IN IF range_filter # None /\ df_column \in df.columns
       THEN LET ge(r) == r[df_column].k = "num" /\ r[df_column].v >= range_filter.min_value.v
                le(r) == r[df_column].k = "num" /\ r[df_column].v <= range_filter.max_value.v
                df1 == IF range_filter.min_value # None THEN Filter(df, ge) ELSE df
            IN IF range_filter.max_value # None THEN Filter(df, le) ELSE df1
       ELSE df

\* one iteration of the loop of _apply_numerical_filters; a RangeFilter object is always truthy
NumericalStep(df, filter_request, mapping) ==
    LET range_filter == filter_request[mapping[1]]
        df_column == mapping[2]
    IN IF range_filter # None /\ df_column \in df.columns
       THEN LET ge(r) == CellGE(r[df_column], range_filter.min_value)
                le(r) == CellLE(r[df_column], range_filter.max_value)
                df1 == IF range_filter.min_value # None THEN Filter(df, ge) ELSE df
            IN IF range_filter.max_value # None THEN Filter(df1, le) ELSE df1
       ELSE df

RECURSIVE NumericalLoop(_, _, _)
NumericalLoop(df, filter_request, mappings) ==
    IF mappings = <<>> THEN df
    ELSE NumericalLoop(NumericalStep(df, filter_request, Head(mappings)), filter_request, Tail(mappings))

_apply_numerical_filters(df, filter_request) ==
    NumericalLoop(df, filter_request, numerical_mappings)

\* df[col] == filter_value on one cell
CellEQ(val, x) == val = x

\* BooleanStep guarded by the truth value of the target: a False target is ignored
BooleanStep_Truthy(df, filter_request, mapping) ==
    LET filter_value == filter_request[mapping[1]]
        df_column == mapping[2]
    IN IF filter_value = Bool(TRUE) /\ df_column \in df.columns
       THEN LET eq(r) == r[df_column] = filter_value IN Filter(df, eq)
       ELSE df

\* one iteration of the loop of _apply_boolean_filters
BooleanStep(df, filter_request, mapping) ==
    LET filter_value == filter_request[mapping[1]]
        df_column == mapping[2]
    IN IF filter_value # None /\ df_column \in df.columns
       THEN LET eq(r) == CellEQ(r[df_column], filter_value) IN Filter(df, eq)
       ELSE df

RECURSIVE BooleanLoop(_, _, _)
BooleanLoop(df, filter_request, mappings) ==
    IF mappings = <<>> THEN df
    ELSE BooleanLoop(BooleanStep(df, filter_request, Head(mappings)), filter_request, Tail(mappings))

_apply_boolean_filters(df, filter_request) ==
    BooleanLoop(df, filter_request, boolean_mappings)

\* FilterService.apply_filters on the frame the merged_df property returned
apply_filters_on(df, filter_request) ==
    _apply_boolean_filters(
        _apply_numerical_filters(
            _apply_categorical_filters(df, filter_request), filter_request), filter_request)

\* apply_filters without the copy, the shared frame filtered in place
apply_filters_InPlace(filter_request) ==
    /\ IF merged_df(_donor_df, _biosample_df, _traits_df, _merged_df) = None
       THEN /\ call' = Call("apply_filters", filter_request, "AttributeError", None)
            /\ UNCHANGED _merged_df
       ELSE /\ _merged_df' = apply_filters_on(merged_df(_donor_df, _biosample_df, _traits_df, _merged_df),
                                              filter_request)
            /\ call' = Call("apply_filters", filter_request, "none", _merged_df')
    /\ UNCHANGED <<files, _instance, _initialized, pc, _donor_df, _biosample_df, _traits_df>>

\* FilterService.apply_filters: reads merged_df, then filters a copy of it
apply_filters(filter_request) ==
    /\ _merged_df' = merged_df(_donor_df, _biosample_df, _traits_df, _merged_df)
    /\ IF _merged_df' = None
       THEN call' = Call("apply_filters", filter_request, "AttributeError", None)
       ELSE call' = Call("apply_filters", filter_request, "none",
                         apply_filters_on(_merged_df', filter_request))
    /\ UNCHANGED <<files, _instance, _initialized, pc, _donor_df, _biosample_df, _traits_df>>

(***************************************************************************)
(* The loader runs: any combination of present and missing files.          *)
(***************************************************************************)
LoaderRequests ==
    {EmptyRequest,
     [FilterRequest(None, List(<< <<"x">> >>), None, RangeFilter(Num(1), None), None)
        EXCEPT !.aab_gada_positive = Bool(TRUE)]}

Next ==
    \/ load_all
    \/ reload
    \/ donor_df
    \/ traits_df
    \/ read_merged_df
    \/ \E filter_request \in LoaderRequests : apply_filters(filter_request)

Spec == Init /\ [][Next]_vars

(***************************************************************************)
(* The filter runs: every file is present, donors vary in the filtered     *)
(* columns, and requests range over FilterRequests.                        *)
(***************************************************************************)
GenderCells == {Dash, <<"F", " ">>, <<"m">>}
AgeCells == {Dash, <<"1">>, <<"2">>}
MultiCells == {Dash, StrTRUE, StrFALSE}

FilterDonorIds == <<D1, D2, D3>>

\* the first donor takes every combination of values, the others a few
FilterDonorRows(i) ==
    IF i = 1
    THEN {DonorRow(D1, g, a, m) : g \in GenderCells, a \in AgeCells, m \in MultiCells}
    ELSE {DonorRow(FilterDonorIds[i], <<"f">>, <<"2">>, Dash),
          DonorRow(FilterDonorIds[i], <<"m">>, Dash, StrFALSE)}

FilterDonorFiles ==
    {DataFrame(DonorColumns, rws) :
        rws \in {f \in SeqsUpTo(UNION {FilterDonorRows(i) : i \in 1..MaxFilterDonors}, MaxFilterDonors) :
                    /\ f # <<>>
                    /\ \A i \in DOMAIN f : f[i] \in FilterDonorRows(i)}}

FilterTraitFile ==
    DataFrame(TraitFileColumns, [i \in 1..3 |-> TraitRow(FilterDonorIds[i], <<"1">>)])

FilterBiosampleFile ==
    DataFrame(BiosampleColumns, <<BiosampleRow(Accession(D1), <<"X">>, <<"1">>)>>)

GenderLists == {None, List(<<>>), List(<< <<" ", "f">> >>), List(<< <<"M">>, <<"x">> >>)}
Bounds == {None, Num(1), Num(2)}
RangeFilters == {None} \cup {RangeFilter(lo, hi) : lo \in Bounds, hi \in Bounds}
Targets == {None, Bool(TRUE), Bool(FALSE)}
CenterLists == {None, List(<< <<"x">> >>)}

FilterRequests ==
    {FilterRequest(g, None, a, None, m) : g \in GenderLists, a \in RangeFilters, m \in Targets}
    \cup {FilterRequest(g, c, None, p, None) :
             g \in GenderLists, c \in CenterLists, p \in {None, RangeFilter(Num(1), None)}}

InitFilter ==
    /\ files \in [donor : FilterDonorFiles, biosample : {FilterBiosampleFile}, traits : {FilterTraitFile}]
    /\ InitLoader

NextFilter ==
    \/ load_all
    \/ \E filter_request \in FilterRequests : apply_filters(filter_request)

SpecFilter == InitFilter /\ [][NextFilter]_vars

(***************************************************************************)
(* Properties of the merge (specification Spec).                           *)
(***************************************************************************)
Rows(df) == {df.rows[i] : i \in DOMAIN df.rows}

Column(df, col) == {df.rows[i][col] : i \in DOMAIN df.rows}

\* the biosample records of an accession, in source order
RecordsOf(biosample, accession) ==
    LET G(r) == r["Donors"] = accession IN SelectSeq(biosample.rows, G)

MergedWithBiosample ==
    /\ _merged_df # None
    /\ _biosample_df # None
    /\ "biosample_Isolation_center" \in _merged_df.columns

\* C1: after the merge, at most one row of the Analysis Frame has a given
\* donor identifier, whatever the Biosample collection holds (several
\* records of one donor included).
C1_MergeCardinality ==
    _merged_df # None =>
        \A i \in DOMAIN _merged_df.rows : \A j \in DOMAIN _merged_df.rows :
            i # j => _merged_df.rows[i]["RRID"] # _merged_df.rows[j]["RRID"]

\* a frame with donor d1 was merged with a Biosample holding two records of d1
C1_Witness ==
    /\ MergedWithBiosample
    /\ Len(RecordsOf(_biosample_df, Str(Accession(D1)))) >= 2
    /\ Str(D1) \in Column(_merged_df, "RRID")

\* C2: the donor identifiers of the Analysis Frame are exactly those present
\* in both the Donor and the Trait source; Biosample records never add or
\* remove a donor row.
C2_InnerJoinIds ==
    _merged_df # None =>
        /\ _donor_df # None
        /\ _traits_df # None
        /\ Column(_merged_df, "RRID") = Column(_donor_df, "RRID") \cap Column(_traits_df, "RRID")
        /\ Column(_merged_df, "RRID") =
              Column(files.donor, "RRID") \cap Column(files.traits, "Donor ID")

\* a donor lacks traits, a trait record lacks its donor, and a donor of the
\* frame has no biosample record while another has one
C2_Witness ==
    /\ MergedWithBiosample
    /\ Column(_donor_df, "RRID") \ Column(_traits_df, "RRID") # {}
    /\ Column(_traits_df, "RRID") \ Column(_donor_df, "RRID") # {}
    /\ \E r \in Rows(_merged_df) : RecordsOf(_biosample_df, r["Accession"]) = <<>>
    /\ _biosample_df.rows # <<>>

\* C3: the biosample_* columns of a donor's row are the values of the first
\* biosample record of that donor in source order.
C3_FirstRecordOnly ==
    MergedWithBiosample =>
        \A r \in Rows(_merged_df) :
            LET recs == RecordsOf(_biosample_df, r["Accession"])
            IN recs # <<>> =>
                 \A c \in _biosample_df.columns \ {"Donors"} :
                     r[BiosamplePrefix(c)] = Head(recs)[c]

\* C4: when the Donor or the Trait source is absent, building the frame
\* raises an error to the caller.
C4_MissingSourceRaises ==
    (/\ call.op \in {"load_all", "reload", "merged_df", "apply_filters"}
     /\ (_donor_df = None \/ _traits_df = None))
        => call.raised # "none"

\* C5: when the Biosample source is absent, load_all succeeds, the frame
\* holds the donors of the Donor-Trait join and the biosample columns exist
\* and are null in every row.
C5_BiosampleOptional ==
    (/\ call.op \in {"load_all", "reload"}
     /\ files.donor # MISSING
     /\ files.traits # MISSING
     /\ files.biosample = MISSING)
        => /\ call.raised = "none"
           /\ _merged_df # None
           /\ Column(_merged_df, "RRID") =
                 Column(files.donor, "RRID") \cap Column(files.traits, "Donor ID")
           /\ \A c \in BiosampleColumns \ {"Donors"} :
                 /\ BiosamplePrefix(c) \in _merged_df.columns
                 /\ \A r \in Rows(_merged_df) : isna(r[BiosamplePrefix(c)])

(***************************************************************************)
(* Properties of the filter (specification SpecFilter).                    *)
(***************************************************************************)
\* apply_filters returned a frame
Applied == call.op = "apply_filters" /\ call.raised = "none"

AllMappings == categorical_mappings \o numerical_mappings \o boolean_mappings

Field(mapping) == mapping[1]

Mappings == {AllMappings[i] : i \in DOMAIN AllMappings}

\* the criteria with one group removed, and with only one group kept
Without(criteria, field) == [criteria EXCEPT ![field] = None]
Only(criteria, field) == [f \in DOMAIN criteria |-> IF f = field THEN criteria[f] ELSE None]

\* trimmed, lower-cased form of a string
Normal(str) == strip(lower(str))

\* what a group asks of a row, stated on the row alone
CategoricalHolds(r, col, accepted) ==
    /\ ~isna(r[col])
    /\ \E i \in DOMAIN accepted : Normal(accepted[i]) = Normal(r[col].v)

RangeHolds(r, col, range) ==
    /\ range.min_value # None => (~isna(r[col]) /\ r[col].v >= range.min_value.v)
    /\ range.max_value # None => (~isna(r[col]) /\ r[col].v <= range.max_value.v)

BooleanHolds(r, col, target) == ~isna(r[col]) /\ r[col].v = target.v

\* a group is active: it is given (and not empty) and its column is in the frame
Active(frame, criteria, mapping) ==
    /\ mapping[2] \in frame.columns
    /\ criteria[mapping[1]] # None
    /\ criteria[mapping[1]].k = "list" => criteria[mapping[1]].v # <<>>

GroupHolds(r, criteria, mapping) ==
    LET g == criteria[mapping[1]]
    IN IF g.k = "list" THEN CategoricalHolds(r, mapping[2], g.v)
       ELSE IF g.k = "RangeFilter" THEN RangeHolds(r, mapping[2], g)
       ELSE BooleanHolds(r, mapping[2], g)

Satisfies(r, frame, criteria) ==
    \A m \in Mappings : Active(frame, criteria, m) => GroupHolds(r, criteria, m)

\* C6: apply returns exactly the rows that satisfy every active group, each
\* judged on the row alone: the intersection of the per-group results,
\* whatever the order of the three stages, and the whole frame when no group
\* is active.
C6_FilterIntersection ==
    Applied =>
        LET frame == _merged_df
            criteria == call.request
            sat(r) == Satisfies(r, frame, criteria)
        IN /\ call.result = Filter(frame, sat)
           /\ \A r \in Rows(frame) :
                 r \in Rows(call.result) <=>
                    \A m \in Mappings : r \in Rows(apply_filters_on(frame, Only(criteria, Field(m))))
           /\ call.result = _apply_categorical_filters(
                                _apply_numerical_filters(
                                    _apply_boolean_filters(frame, criteria), criteria), criteria)
           /\ (\A m \in Mappings : ~Active(frame, criteria, m)) => call.result = frame

\* two groups of different kinds are active and the result differs from the
\* result of each of them alone
C6_Witness ==
    /\ Applied
    /\ \E m1 \in Mappings : \E m2 \in Mappings :
          /\ m1 # m2
          /\ Active(_merged_df, call.request, m1)
          /\ Active(_merged_df, call.request, m2)
          /\ call.result # apply_filters_on(_merged_df, Only(call.request, Field(m1)))
          /\ call.result # apply_filters_on(_merged_df, Only(call.request, Field(m2)))
    /\ call.request.multi_aab = Bool(FALSE)

\* the ranges with the same or fewer bounds
WeakerRanges(range) ==
    IF range = None THEN {None}
    ELSE {None} \cup {RangeFilter(lo, hi) : lo \in {None, range.min_value}, hi \in {None, range.max_value}}

\* the criteria made of some of the constraints of the given criteria
Weaker(criteria) ==
    {FilterRequest(g, c, a, p, m) :
        g \in {None, List(<<>>), criteria.gender},
        c \in {None, criteria.isolation_center},
        a \in WeakerRanges(criteria.age_range),
        p \in WeakerRanges(criteria.purity_range),
        m \in {None, criteria.multi_aab}}

\* C7: filter monotonicity: the rows returned for criteria that contain every
\* constraint of other criteria are among the rows returned for those.
C7_FilterMonotonicity ==
    Applied =>
        \A c1 \in Weaker(call.request) :
            Rows(call.result) \subseteq Rows(apply_filters_on(_merged_df, c1))

\* criteria with a min and a max bound return fewer rows than with the min alone
C7_Witness ==
    /\ Applied
    /\ call.request.age_range # None
    /\ call.request.age_range.min_value # None
    /\ call.request.age_range.max_value # None
    /\ \E r \in Rows(apply_filters_on(_merged_df,
                        [call.request EXCEPT !.age_range = RangeFilter(call.request.age_range.min_value, None)])) :
          r \notin Rows(call.result)
    /\ call.result.rows # <<>>

NumericalMappings == {numerical_mappings[i] : i \in DOMAIN numerical_mappings}
BooleanMappings == {boolean_mappings[i] : i \in DOMAIN boolean_mappings}
CategoricalMappings == {categorical_mappings[i] : i \in DOMAIN categorical_mappings}

\* C8 as stated: an active numerical-range group (a range object carrying
\* neither bound included) or boolean group excludes every row whose value in
\* its column is null.
C8_NullExclusionAnyRange ==
    Applied =>
        \A m \in NumericalMappings \cup BooleanMappings :
            Active(_merged_df, call.request, m) =>
                \A r \in Rows(call.result) : ~isna(r[m[2]])

HasBound(g) == g.k = "RangeFilter" => (g.min_value # None \/ g.max_value # None)

\* C8 amended: a numerical-range group that carries at least one bound, or a
\* boolean group with a target, excludes every row whose value in its column
\* is null, whatever the bounds and the target are.
C8_NullExclusion ==
    Applied =>
        \A m \in NumericalMappings \cup BooleanMappings :
            (Active(_merged_df, call.request, m) /\ HasBound(call.request[Field(m)])) =>
                \A r \in Rows(call.result) : ~isna(r[m[2]])

\* a min-only range dropped a row with a null age and kept another row
C8_Witness ==
    /\ Applied
    /\ call.request.age_range # None
    /\ call.request.age_range.min_value # None
    /\ call.request.age_range.max_value = None
    /\ \E r \in Rows(_merged_df) :
          /\ isna(r["Age (years)"])
          /\ r \in Rows(apply_filters_on(_merged_df, Without(call.request, "age_range")))
          /\ r \notin Rows(call.result)
    /\ call.result.rows # <<>>

\* C9: a categorical group with a non-empty accepted set keeps a row iff its
\* value is non-null and its trimmed, lower-cased form equals that of some
\* accepted value; an empty or missing accepted set imposes no constraint.
C9_CategoricalMatch ==
    Applied =>
        \A m \in CategoricalMappings :
            LET accepted == call.request[Field(m)]
                others == Rows(apply_filters_on(_merged_df, Without(call.request, Field(m))))
            IN IF Active(_merged_df, call.request, m)
               THEN \A r \in Rows(_merged_df) :
                       r \in Rows(call.result) <=>
                          (r \in others /\ CategoricalHolds(r, m[2], accepted.v))
               ELSE Rows(call.result) = others

\* a row matched an accepted value only after trimming and lower-casing both,
\* and a row with a null value was dropped
C9_Witness ==
    /\ Applied
    /\ call.request.gender # None
    /\ call.request.gender.v # <<>>
    /\ \E r \in Rows(call.result) :
          \A i \in DOMAIN call.request.gender.v : call.request.gender.v[i] # r["Gender"].v
    /\ \E r \in Rows(_merged_df) : isna(r["Gender"]) /\ r \notin Rows(call.result)

\* C10: min and max of a numerical range are independent inclusive bounds: a
\* row with a non-null value v is kept iff (no min or v >= min) and (no max or
\* v <= max), so a value equal to a bound is kept and every returned row lies
\* within the bounds given.
C10_InclusiveRange ==
    Applied =>
        \A m \in NumericalMappings :
            Active(_merged_df, call.request, m) =>
                LET range == call.request[Field(m)]
                    others == Rows(apply_filters_on(_merged_df, Without(call.request, Field(m))))
                IN /\ \A r \in Rows(_merged_df) :
                         ~isna(r[m[2]]) =>
                            (r \in Rows(call.result) <=>
                               /\ r \in others
                               /\ range.min_value = None \/ r[m[2]].v >= range.min_value.v
                               /\ range.max_value = None \/ r[m[2]].v <= range.max_value.v)
                   /\ \A r \in Rows(call.result) :
                         /\ range.min_value # None => (~isna(r[m[2]]) /\ r[m[2]].v >= range.min_value.v)
                         /\ range.max_value # None => (~isna(r[m[2]]) /\ r[m[2]].v <= range.max_value.v)

\* a row whose age equals the max bound and a row whose age equals the min
\* bound were kept
C10_Witness ==
    /\ Applied
    /\ call.request.age_range # None
    /\ call.request.age_range.min_value # None
    /\ call.request.age_range.max_value # None
    /\ \E r \in Rows(call.result) : r["Age (years)"] = call.request.age_range.min_value
    /\ \E r \in Rows(call.result) : r["Age (years)"] = call.request.age_range.max_value
    /\ \E r \in Rows(_merged_df) : r \notin Rows(call.result)

\* C11: a criteria group whose column is absent from the frame is ignored
\* without error: the rows returned are those returned for the criteria
\* without that group.
C11_AbsentColumnIgnored ==
    (call.op = "apply_filters" /\ _merged_df # None) =>
        /\ call.raised = "none"
        /\ \A m \in Mappings :
              m[2] \notin _merged_df.columns =>
                 call.result = apply_filters_on(_merged_df, Without(call.request, Field(m)))
        /\ (\A m \in Mappings : call.request[Field(m)] # None => m[2] \notin _merged_df.columns)
              => call.result = _merged_df

\* a categorical, a numerical and a boolean group were given for columns the
\* frame lacks, and every row of the frame was returned
C11_Witness ==
    /\ Applied
    /\ _merged_df.rows # <<>>
    /\ call.request.isolation_center # None
    /\ call.request.purity_range # None
    /\ call.request.aab_gada_positive # None
    /\ "biosample_Isolation_center" \notin _merged_df.columns
    /\ "biosample_Purity (Percentage)" \notin _merged_df.columns
    /\ "AAB GADA POSITIVE" \notin _merged_df.columns
    /\ call.result = _merged_df

(***************************************************************************)
(* Type inference (AnalysisService._infer_variable_type).  A Series is a   *)
(* sequence of cells.                                                      *)
(***************************************************************************)
MaxSeriesLen == 5

\* numeric_count / non_null_count > 0.8, as a ratio of integers
TypeRatioNum == 4
TypeRatioDen == 5

NotNull(val) == ~isna(val)

\* series.dropna()
dropna(series) == SelectSeq(series, NotNull)

\* v in {True, False}: Python compares bool and numbers by value (True == 1 == 1.0)
InTrueFalse(val) == val.k = "bool" \/ (val.k = "num" /\ val.v \in {0, 1})

\* pd.to_numeric(series, errors='coerce')
to_numeric_series(series) == [i \in DOMAIN series |-> to_numeric(series[i])]

\* _infer_variable_type with numeric_count / non_null_count >= 0.8
_infer_variable_type_AtLeast(series) ==
    IF \A i \in DOMAIN dropna(series) : InTrueFalse(dropna(series)[i]) THEN "boolean"
    ELSE LET non_null_count == Len(dropna(series))
             numeric_count == Len(dropna(to_numeric_series(series)))
         IN IF non_null_count > 0 /\ TypeRatioDen * numeric_count >= TypeRatioNum * non_null_count
            THEN "numerical"
            ELSE "categorical"

\* AnalysisService._infer_variable_type
_infer_variable_type(series) ==
    IF \A i \in DOMAIN dropna(series) : InTrueFalse(dropna(series)[i]) THEN "boolean"
    ELSE LET non_null_count == Len(dropna(series))
             numeric_count == Len(dropna(to_numeric_series(series)))
         IN IF non_null_count > 0 /\ TypeRatioDen * numeric_count > TypeRatioNum * non_null_count
            THEN "numerical"
            ELSE "categorical"

SeriesCells == {NaN, Bool(TRUE), Bool(FALSE), Num(1), Num(2), Str(<<"x">>), Str(<<"2">>)}

NoFiles == [donor |-> MISSING, biosample |-> MISSING, traits |-> MISSING]

\* a caller holds a column
InitInfer ==
    /\ files = NoFiles
    /\ _instance = Instance
    /\ _initialized = TRUE
    /\ pc = "idle"
    /\ _donor_df = None
    /\ _biosample_df = None
    /\ _traits_df = None
    /\ _merged_df = None
    /\ call \in {Call("Series", series, "none", None) : series \in SeqsUpTo(SeriesCells, MaxSeriesLen)}

\* the caller infers the type of the column
infer ==
    /\ call.op = "Series"
    /\ call' = Call("_infer_variable_type", call.request, "none", _infer_variable_type(call.request))
    /\ UNCHANGED <<files, _instance, _initialized, pc, _donor_df, _biosample_df, _traits_df, _merged_df>>

NextInfer == infer

SpecInfer == InitInfer /\ [][NextInfer]_vars

Inferred == call.op = "_infer_variable_type"

\* the cells of a series that satisfy a predicate
Count(series, P(_)) == Cardinality({i \in DOMAIN series : P(series[i])})

IsBoolean(val) == val.k = "bool"
IsOneOrZero(val) == val.k = "bool" \/ val = Num(0) \/ val = Num(1)
Coerces(val) == val.k \in {"bool", "num"} \/ (val.k = "str" /\ IsDigits(strip(val.v)))

\* more than 80% of the non-null values coerce to a number
MostlyNumeric(series) ==
    /\ Count(series, NotNull) > 0
    /\ 10 * Count(series, Coerces) > 8 * Count(series, NotNull)

\* C12 as stated: boolean iff every non-null value is true or false (a column
\* of numbers is never boolean); otherwise numerical iff strictly more than
\* 80% of the non-null values coerce to a number; otherwise categorical.
C12_InferOrderBooleansOnly ==
    Inferred =>
        LET series == call.request
            allBool == \A i \in DOMAIN series : NotNull(series[i]) => IsBoolean(series[i])
        IN call.result = IF allBool THEN "boolean"
                         ELSE IF MostlyNumeric(series) THEN "numerical"
                         ELSE "categorical"

\* C12 amended: boolean iff every non-null value equals True or False, the
\* numbers 1 and 0 counting as True and False; otherwise numerical iff
\* strictly more than 80% of the non-null values coerce to a number;
\* otherwise categorical.
C12_InferOrder ==
    Inferred =>
        LET series == call.request
            allBool == \A i \in DOMAIN series : NotNull(series[i]) => IsOneOrZero(series[i])
        IN call.result = IF allBool THEN "boolean"
                         ELSE IF MostlyNumeric(series) THEN "numerical"
                         ELSE "categorical"

\* exactly 80% of the non-null values of a column coerce, and it is categorical
C12_Witness ==
    /\ Inferred
    /\ Count(call.request, NotNull) = 5
    /\ Count(call.request, Coerces) = 4
    /\ \E i \in DOMAIN call.request : call.request[i] = Num(2)
    /\ call.result = "categorical"

(***************************************************************************)
(* AnalysisService (app/services/analysis_service.py): association of      *)
(* variables with traits.  The statistics of a result are not computed:    *)
(* a result carries the pair, the number of samples and the method.        *)
(***************************************************************************)
MaxAssocDonors == 11

\* len(analysis_df) < 10, len(group_values) >= 2, len(group_data) < 2
MinSamples == 10
MinGroupSize == 2
MinGroups == 2

\* AnalysisMethod
AnalysisMethod == {"linear_regression", "logistic_regression", "correlation", "anova", "kruskal_wallis"}

AssociationRequest(filter_criteria, variables_of_interest, control_variables, traits, analysis_method) ==
    [filter_criteria |-> filter_criteria, variables_of_interest |-> variables_of_interest,
     control_variables |-> control_variables, traits |-> traits, analysis_method |-> analysis_method]

ExternalDataRequest(filter_criteria, external_data, variables_of_interest, control_variables, traits, analysis_method) ==
    [filter_criteria |-> filter_criteria, external_data |-> external_data,
     variables_of_interest |-> variables_of_interest,
     control_variables |-> control_variables, traits |-> traits, analysis_method |-> analysis_method]

AssociationResult(trait, variable, n_samples, method) ==
    [k |-> "AssociationResult", trait |-> trait, variable |-> variable,
     n_samples |-> n_samples, method |-> method]

\* an exception leaving a function
Raise(type) == [k |-> "raise", type |-> type]

\* What the code does not decide.  ols_accepts_bool: whether the installed
\* statsmodels fits a design holding the boolean columns pd.get_dummies and
\* pd.to_numeric produce, or raises ValueError.  failure: None, or one step of
\* the evaluation of one pair at which the interpreter raises (MemoryError).
Environment(ols_accepts_bool, failure) == [ols_accepts_bool |-> ols_accepts_bool, failure |-> failure]

Failure(variable, trait, step) == [variable |-> variable, trait |-> trait, step |-> step]

Fails(env, variable, trait, step) == env.failure = Failure(variable, trait, step)

\* the header order of the trait columns
TraitOrder == <<"INS-IEQ Basal Secretion", "INS-IEQ G 16.7 AUC">>

\* DataLoader.get_trait_columns as the list the code returns
trait_columns(traits) ==
    LET T(c) == c \in get_trait_columns(traits) IN SelectSeq(TraitOrder, T)

\* df[col]
Series(df, col) == [i \in DOMAIN df.rows |-> df.rows[i][col]]

\* [c for c in cols if c in df.columns]
PresentIn(cols, columns) == LET P(c) == c \in columns IN SelectSeq(cols, P)

Occurrences(x, xs) == Cardinality({i \in DOMAIN xs : xs[i] = x})

Elements(xs) == {xs[i] : i \in DOMAIN xs}

\* F(x), with x computed once
At(x, F(_)) == CHOOSE y \in {F(v) : v \in {x}} : TRUE

\* SubFrame without dropna(): rows with a null stay in the sub-frame
SubFrame_KeepNulls(df, available_cols) ==
    [labels |-> available_cols, columns |-> Elements(available_cols), rows |-> df.rows]

\* df[available_cols].dropna(): labels are the selected column labels, a
\* label selected twice is a duplicated column of the sub-frame
SubFrame(df, available_cols) ==
    LET Complete(r) == \A i \in DOMAIN available_cols : ~isna(r[available_cols[i]])
    IN [labels |-> available_cols, columns |-> Elements(available_cols),
        rows |-> SelectSeq(df.rows, Complete)]

\* df[col] of a duplicated label is a DataFrame, not a Series
IsDataFrame(df, col) == Occurrences(col, df.labels) > 1

RECURSIVE DecimalStr(_)
DecimalStr(n) == IF n < 10 THEN <<Digits[n + 1]>>
                 ELSE DecimalStr(n \div 10) \o <<Digits[(n % 10) + 1]>>

StrNan == <<"n", "a", "n">>

\* Series.astype(str) on one cell (a number of a float64 column)
astype_str(val) ==
    IF val.k = "str" THEN val.v
    ELSE IF val.k = "num" THEN DecimalStr(val.v) \o <<".", "0">>
    ELSE IF val.k = "bool" THEN (IF val.v THEN <<"T", "r", "u", "e">> ELSE <<"F", "a", "l", "s", "e">>)
    ELSE StrNan

\* the values of one group: y[groups == group_name].dropna()
group_values(df, trait, variable, group_name) ==
    LET G(r) == astype_str(r[variable]) = group_name /\ ~isna(to_numeric(r[trait]))
    IN SelectSeq(df.rows, G)

\* group_data that keeps the group named 'nan'
group_data_KeepSentinel(df, trait, variable) ==
    {g \in {astype_str(df.rows[i][variable]) : i \in DOMAIN df.rows} :
        Len(group_values(df, trait, variable, g)) >= MinGroupSize}

\* group_data of _anova and _kruskal_wallis: the names of the groups kept
group_data(df, trait, variable) ==
    {g \in {astype_str(df.rows[i][variable]) : i \in DOMAIN df.rows} \ {StrNan} :
        Len(group_values(df, trait, variable, g)) >= MinGroupSize}

\* sum(len(g) for g in group_data)
total_n(df, trait, variable) ==
    LET kept == group_data(df, trait, variable)
        G(r) == astype_str(r[variable]) \in kept /\ ~isna(to_numeric(r[trait]))
    IN Len(SelectSeq(df.rows, G))

\* AnalysisService._anova
_anova(df, trait, variable) ==
    IF IsDataFrame(df, trait) THEN Raise("TypeError")
    ELSE IF IsDataFrame(df, variable) THEN Raise("AttributeError")
    ELSE IF Cardinality(group_data(df, trait, variable)) < MinGroups THEN None
    ELSE AssociationResult(trait, variable, total_n(df, trait, variable), "anova")

\* AnalysisService._kruskal_wallis
_kruskal_wallis(df, trait, variable) ==
    IF IsDataFrame(df, trait) THEN Raise("TypeError")
    ELSE IF IsDataFrame(df, variable) THEN Raise("AttributeError")
    ELSE IF Cardinality(group_data(df, trait, variable)) < MinGroups THEN None
    ELSE AssociationResult(trait, variable, total_n(df, trait, variable), "kruskal_wallis")

\* AnalysisService._correlation
_correlation(df, trait, variable) ==
    IF IsDataFrame(df, variable) \/ IsDataFrame(df, trait) THEN Raise("TypeError")
    ELSE LET valid_mask(r) == ~(isna(to_numeric(r[variable])) \/ isna(to_numeric(r[trait])))
             n == Len(SelectSeq(df.rows, valid_mask))
         IN IF n < MinSamples THEN None
            ELSE AssociationResult(trait, variable, n, "correlation")

\* the columns pd.get_dummies(X, columns=[col], drop_first=True) makes of col:
\* one per value but the first
Dummies(df, col) ==
    LET values == {Str(astype_str(df.rows[i][col])) : i \in DOMAIN df.rows}
    IN IF values = {} THEN {} ELSE values \ {SortedStrs(values)[1]}

\* a column of the design matrix X: a predictor made numeric (level None) or
\* the dummy column '<col>_<level>' of a categorical one
DesignColumn(col, level) == [col |-> col, level |-> level]

\* the columns of X after the loop of lines 270-275: X[col] = to_numeric(...)
\* keeps a column in place, pd.get_dummies(X, columns=[col], drop_first=True)
\* removes it and appends its dummy columns, first level dropped
RECURSIVE DummyColumns(_, _)
DummyColumns(df, cols) ==
    IF cols = <<>> THEN <<>>
    ELSE LET levels == SortedStrs(Dummies(df, Head(cols)))
         IN [i \in DOMAIN levels |-> DesignColumn(Head(cols), levels[i])] \o DummyColumns(df, Tail(cols))

design_columns(df, X_cols) ==
    LET categorical(c) == _infer_variable_type(Series(df, c)) = "categorical"
        numeric(c) == ~categorical(c)
        kept == SelectSeq(X_cols, numeric)
    IN [i \in DOMAIN kept |-> DesignColumn(kept[i], None)] \o DummyColumns(df, SelectSeq(X_cols, categorical))

\* the column names of the model that are part of another column name
NameParts == {<<"Gender", "Gender Code">>}

\* variable in c, for the name c of a design column: no name of the model
\* is part of a level or of 'const'
InName(variable, c) == variable = c.col \/ <<variable, c.col>> \in NameParts

\* [c for c in model.params.index if variable in c and c != 'const']
var_cols(df, variable, control_variables) ==
    LET Named(c) == InName(variable, c)
    IN SelectSeq(design_columns(df, <<variable>> \o PresentIn(control_variables, df.columns)), Named)

\* main_var = var_cols[0], the column whose statistics are reported
main_var(df, variable, control_variables) ==
    LET cols == var_cols(df, variable, control_variables)
    IN IF cols = <<>> THEN None ELSE Head(cols)

\* AnalysisService._linear_regression
_linear_regression(df, trait, variable, control_variables, env) ==
    LET X_cols == <<variable>> \o PresentIn(control_variables, df.columns)
        col_type(c) == _infer_variable_type(Series(df, c))
        numeric_cols == {c \in Elements(X_cols) : col_type(c) # "categorical"}
        valid_mask(r) == /\ \A c \in numeric_cols : ~isna(to_numeric(r[c]))
                         /\ ~isna(to_numeric(r[trait]))
        y == SelectSeq(df.rows, valid_mask)
        bool_cols == {c \in Elements(X_cols) :
                        \/ col_type(c) = "categorical" /\ Dummies(df, c) # {}
                        \/ \E i \in DOMAIN df.rows : df.rows[i][c].k = "bool"}
    IN IF IsDataFrame(df, trait) THEN Raise("TypeError")
       ELSE IF \E c \in Elements(X_cols) : IsDataFrame(df, c) THEN Raise("AttributeError")
       ELSE IF Len(y) < MinSamples THEN None
       ELSE IF bool_cols # {} /\ ~env.ols_accepts_bool THEN Raise("ValueError")
       ELSE IF var_cols(df, variable, control_variables) = <<>> THEN None
       ELSE AssociationResult(trait, variable, Len(y), "linear_regression")

\* TestOf with the else branch running the correlation
TestOf_FallbackCorrelation(analysis_df, trait, variable, control_variables, method, env) ==
    IF method = "linear_regression"
    THEN _linear_regression(analysis_df, trait, variable, control_variables, env)
    ELSE IF method = "correlation" THEN _correlation(analysis_df, trait, variable)
    ELSE IF method = "anova" THEN _anova(analysis_df, trait, variable)
    ELSE IF method = "kruskal_wallis" THEN _kruskal_wallis(analysis_df, trait, variable)
    ELSE _correlation(analysis_df, trait, variable)

\* the try block of _analyze_association
TestOf(analysis_df, trait, variable, control_variables, method, env) ==
    IF method = "linear_regression"
    THEN _linear_regression(analysis_df, trait, variable, control_variables, env)
    ELSE IF method = "correlation" THEN _correlation(analysis_df, trait, variable)
    ELSE IF method = "anova" THEN _anova(analysis_df, trait, variable)
    ELSE IF method = "kruskal_wallis" THEN _kruskal_wallis(analysis_df, trait, variable)
    ELSE _linear_regression(analysis_df, trait, variable, control_variables, env)

\* _analyze_association with the except clause re-raising
_analyze_association_Reraise(df, trait, variable, control_variables, method, env) ==
    LET analysis_cols == <<trait, variable>> \o control_variables
        available_cols == PresentIn(analysis_cols, df.columns)
        Analyse(analysis_df) ==
            IF Len(analysis_df.rows) < MinSamples THEN None
            ELSE IF Fails(env, variable, trait, "infer") THEN Raise("MemoryError")
            ELSE IF Fails(env, variable, trait, "test") THEN Raise("MemoryError")
            ELSE TestOf(analysis_df, trait, variable, control_variables, method, env)
    IN IF trait \notin df.columns \/ variable \notin df.columns THEN None
       ELSE IF Fails(env, variable, trait, "dropna") THEN Raise("MemoryError")
       ELSE At(SubFrame(df, available_cols), Analyse)

\* AnalysisService._analyze_association: None, a result, or an exception
_analyze_association(df, trait, variable, control_variables, method, env) ==
    LET analysis_cols == <<trait, variable>> \o control_variables
        available_cols == PresentIn(analysis_cols, df.columns)
        Caught(test) == IF test.k = "raise" THEN None ELSE test
        Analyse(analysis_df) ==
            IF Len(analysis_df.rows) < MinSamples THEN None
            ELSE IF Fails(env, variable, trait, "infer") THEN Raise("MemoryError")
            ELSE IF Fails(env, variable, trait, "test") THEN None
            ELSE At(TestOf(analysis_df, trait, variable, control_variables, method, env), Caught)
    IN IF trait \notin df.columns \/ variable \notin df.columns THEN None
       ELSE IF Fails(env, variable, trait, "dropna") THEN Raise("MemoryError")
       ELSE At(SubFrame(df, available_cols), Analyse)

\* the pairs of the two loops of run_association_analysis, in loop order
LoopPairs(variables, available_traits, columns) ==
    LET present == PresentIn(variables, columns)
    IN Flatten([i \in DOMAIN present |->
                  [j \in DOMAIN available_traits |-> <<present[i], available_traits[j]>>]])

IsResult(x) == x.k = "AssociationResult"
IsRaise(x) == x.k = "raise"

\* TraitCols that ignores request.traits
TraitCols_AllTraits(request, traits) == trait_columns(traits)

\* request.traits or self.data_loader.get_trait_columns()
TraitCols(request, traits) ==
    IF TruthyList(request.traits) THEN request.traits.v ELSE trait_columns(traits)

\* Loops that leaves the loops at the first pair without a result
Loops_StopAtSkip(df, request, traits, env) ==
    LET available_traits == PresentIn(TraitCols(request, traits), df.columns)
        Outcome(pair) == _analyze_association(df, pair[2], pair[1],
                                              request.control_variables, request.analysis_method, env)
        Outcomes(pairs) == [i \in DOMAIN pairs |-> At(pairs[i], Outcome)]
        Collect(outcomes) ==
            IF \E i \in DOMAIN outcomes : IsRaise(outcomes[i])
            THEN [raised |-> "MemoryError", results |-> None, available_traits |-> available_traits]
            ELSE [raised |-> "none",
                  results |-> SubSeq(outcomes, 1,
                                     Cardinality({i \in DOMAIN outcomes :
                                                    \A j \in 1..i : IsResult(outcomes[j])})),
                  available_traits |-> available_traits]
    IN At(At(LoopPairs(request.variables_of_interest, available_traits, df.columns), Outcomes),
          Collect)

\* the loops of run_association_analysis and run_external_data_analysis over
\* the frame df: the exception that leaves them, or the results
Loops(df, request, traits, env) ==
    LET available_traits == PresentIn(TraitCols(request, traits), df.columns)
        Outcome(pair) == _analyze_association(df, pair[2], pair[1],
                                              request.control_variables, request.analysis_method, env)
        Outcomes(pairs) == [i \in DOMAIN pairs |-> At(pairs[i], Outcome)]
        Collect(outcomes) ==
            IF \E i \in DOMAIN outcomes : IsRaise(outcomes[i])
            THEN [raised |-> "MemoryError", results |-> None, available_traits |-> available_traits]
            ELSE [raised |-> "none", results |-> SelectSeq(outcomes, IsResult),
                  available_traits |-> available_traits]
    IN At(At(LoopPairs(request.variables_of_interest, available_traits, df.columns), Outcomes),
          Collect)

Returned(frame, results, summary) ==
    [raised |-> "none", frame |-> frame, results |-> results, summary |-> summary]

Raised(type) == [raised |-> type, frame |-> None, results |-> None, summary |-> None]

\* NoSamples reporting the row count of the unfiltered frame
NoSamples_Unfiltered(message) == [n_samples |-> MaxAssocDonors, message |-> message]

\* the summary of a run that analysed nothing
NoSamples(message) == [n_samples |-> 0, message |-> message]

\* AnalysisService.run_association_analysis on the frame apply_filters returned
run_association_analysis_on(filtered_df, request, traits, env) ==
    IF len(filtered_df) = 0
    THEN Returned(filtered_df, <<>>, NoSamples("No samples match filter criteria"))
    ELSE LET Return(loops) ==
                 IF loops.raised # "none" THEN Raised(loops.raised)
                 ELSE Returned(filtered_df, loops.results,
                               [n_samples |-> len(filtered_df),
                                traits_analyzed |-> Len(loops.available_traits),
                                variables_analyzed |-> Len(request.variables_of_interest)])
         IN At(Loops(filtered_df, request, traits, env), Return)

(***************************************************************************)
(* External data: a dict of donor identifier to a dict of variable name to *)
(* value.  A dict is its keys in insertion order and their values.         *)
(***************************************************************************)
Dict(keys, vals) == [k |-> "dict", keys |-> keys, vals |-> vals]

\* truth value of an Optional[Dict]
TruthyDict(d) == d # None /\ d.keys # <<>>

DictGet(d, key) == d.vals[CHOOSE i \in DOMAIN d.keys : d.keys[i] = key]

\* pd.DataFrame.from_dict(external_data, orient='index'): a row per key, a
\* column per variable name, NaN where a donor lacks the variable; the index
\* is the key
from_dict(external_data) ==
    LET cols == UNION {Elements(external_data.vals[i].keys) : i \in DOMAIN external_data.vals}
    IN [index |-> [i \in DOMAIN external_data.keys |-> Str(external_data.keys[i])],
        columns |-> cols,
        rows |-> [i \in DOMAIN external_data.keys |->
                    [c \in cols |-> IF c \in Elements(external_data.vals[i].keys)
                                    THEN DictGet(external_data.vals[i], c)
                                    ELSE NaN]]]

\* external_df.index.name = 'RRID'; external_df.reset_index(): the index
\* becomes the column RRID (the caller has checked that no column has that name)
reset_index(external_df) ==
    DataFrame(external_df.columns \cup {"RRID"},
              [i \in DOMAIN external_df.rows |->
                 [c \in external_df.columns \cup {"RRID"} |->
                    IF c = "RRID" THEN external_df.index[i] ELSE external_df.rows[i][c]]])

\* the columns two frames share besides the key take the suffixes _x and _y
Suffixed(df, overlap, suffix) ==
    LET name(c) == IF c \in overlap THEN c \o suffix ELSE c
        cols == {name(c) : c \in df.columns}
        Back(n) == CHOOSE c \in df.columns : name(c) = n
    IN IF overlap \cap df.columns = {} THEN df
       ELSE DataFrame(cols, [i \in DOMAIN df.rows |-> [n \in cols |-> df.rows[i][Back(n)]]])

\* MergeOn with how='left': the rows of the left frame without a match stay
MergeOn_Left(left, right, key) ==
    LET overlap == (left.columns \cap right.columns) \ {key}
    IN LeftMerge(Suffixed(left, overlap, "_x"), Suffixed(right, overlap, "_y"), key)

\* left.merge(right, on=key, how='inner') with the default suffixes
MergeOn(left, right, key) ==
    LET overlap == (left.columns \cap right.columns) \ {key}
    IN InnerMerge(Suffixed(left, overlap, "_x"), Suffixed(right, overlap, "_y"), key)

\* AnalysisService.run_external_data_analysis on the frame apply_filters returned
run_external_data_analysis_on(filtered_df, request, traits, env) ==
    IF len(filtered_df) = 0
    THEN Returned(filtered_df, <<>>, NoSamples("No samples match filter criteria"))
    ELSE IF ~TruthyDict(request.external_data)
    THEN Returned(filtered_df, <<>>, NoSamples("No external data provided"))
    ELSE IF "RRID" \in from_dict(request.external_data).columns
    THEN Raised("ValueError")
    ELSE LET external_df == reset_index(from_dict(request.external_data))
             Analyse(analysis_df) ==
                 LET Return(loops) ==
                         IF loops.raised # "none" THEN Raised(loops.raised)
                         ELSE Returned(analysis_df, loops.results,
                                       [n_samples |-> len(analysis_df),
                                        traits_analyzed |-> Len(loops.available_traits),
                                        variables_analyzed |-> Len(request.variables_of_interest),
                                        external_variables |->
                                            [i \in DOMAIN request.external_data.keys |->
                                               Str(request.external_data.keys[i])]])
                 IN IF len(analysis_df) = 0
                    THEN Returned(analysis_df, <<>>, NoSamples("No matching samples with external data"))
                    ELSE At(Loops(analysis_df, request, traits, env), Return)
         IN At(MergeOn(filtered_df, external_df, "RRID"), Analyse)

(***************************************************************************)
(* The analysis runs: every file is present, the donor file varies in its  *)
(* size, its null ages and its genders.                                    *)
(***************************************************************************)
AnalysisCall(op, request, env, out) ==
    [op |-> op, request |-> request, env |-> env, raised |-> out.raised,
     result |-> IF out.raised = "none" THEN [results |-> out.results, summary |-> out.summary] ELSE None,
     frame |-> out.frame]

\* AnalysisService.run_association_analysis
run_association_analysis(request, env) ==
    /\ _merged_df' = merged_df(_donor_df, _biosample_df, _traits_df, _merged_df)
    /\ IF _merged_df' = None
       THEN call' = AnalysisCall("run_association_analysis", request, env, Raised("AttributeError"))
       ELSE \E filtered_df \in {apply_filters_on(_merged_df', request.filter_criteria)} :
               \E out \in {run_association_analysis_on(filtered_df, request, _traits_df, env)} :
                  call' = AnalysisCall("run_association_analysis", request, env, out)
    /\ UNCHANGED <<files, _instance, _initialized, pc, _donor_df, _biosample_df, _traits_df>>

\* AnalysisService.run_external_data_analysis
run_external_data_analysis(request, env) ==
    /\ _merged_df' = merged_df(_donor_df, _biosample_df, _traits_df, _merged_df)
    /\ IF _merged_df' = None
       THEN call' = AnalysisCall("run_external_data_analysis", request, env, Raised("AttributeError"))
       ELSE \E filtered_df \in {apply_filters_on(_merged_df', request.filter_criteria)} :
               \E out \in {run_external_data_analysis_on(filtered_df, request, _traits_df, env)} :
                  call' = AnalysisCall("run_external_data_analysis", request, env, out)
    /\ UNCHANGED <<files, _instance, _initialized, pc, _donor_df, _biosample_df, _traits_df>>

AssocChars == Digits \o Upper

AssocId(i) == <<"d", AssocChars[i]>>

AssocTraitColumns == {"Donor ID"} \cup Elements(TraitOrder)

AssocTraitRow(id, basal, auc) ==
    [c \in AssocTraitColumns |->
       IF c = "Donor ID" THEN Str(id)
       ELSE IF c = TraitOrder[1] THEN Str(basal)
       ELSE Str(auc)]

\* every donor has a basal secretion, the first donor has no AUC
AssocTraitFile ==
    DataFrame(AssocTraitColumns,
              [i \in 1..MaxAssocDonors |->
                 AssocTraitRow(AssocId(i), DecimalStr(i), IF i = 1 THEN Dash ELSE DecimalStr(i))])

GenderPatterns == {"one", "lone", "two", "odd"}

\* one gender, one gender but for the last donor, two alternating genders,
\* or two alternating genders and a third for the last donor
GenderOf(i, n, pattern) ==
    IF pattern = "one" THEN <<"F">>
    ELSE IF pattern = "lone" THEN (IF i = n THEN <<"M">> ELSE <<"F">>)
    ELSE IF pattern = "odd" /\ i = n THEN <<"X">>
    ELSE IF i % 2 = 1 THEN <<"F">> ELSE <<"M">>

\* n donors, the first nulls of them without an age
AssocDonorFile(n, nulls, pattern) ==
    DataFrame(DonorColumns,
              [i \in 1..n |->
                 DonorRow(AssocId(i), GenderOf(i, n, pattern),
                          IF i <= nulls THEN Dash ELSE DecimalStr(20 + i),
                          IF i % 2 = 1 THEN StrTRUE ELSE StrFALSE)])

\* sizes around MinSamples, with 0 to 2 null ages and each gender pattern
AssocProfiles ==
    {<<MaxAssocDonors, 1, "lone">>, <<MaxAssocDonors, 2, "two">>,
     <<MaxAssocDonors, 0, "one">>, <<MaxAssocDonors - 1, 0, "two">>,
     <<MaxAssocDonors - 1, 0, "odd">>}

AssocDonorFiles == {AssocDonorFile(p[1], p[2], p[3]) : p \in AssocProfiles}

InitAssoc ==
    /\ files \in [donor : AssocDonorFiles, biosample : {FilterBiosampleFile}, traits : {AssocTraitFile}]
    /\ InitLoader

Females == FilterRequest(List(<< <<"f">> >>), None, None, None, None)
Nobody == FilterRequest(List(<< <<"x">> >>), None, None, None, None)

Age == "Age (years)"
Basal == TraitOrder[1]
Auc == TraitOrder[2]

AssociationRequests ==
    {AssociationRequest(EmptyRequest, v, <<>>, None, m) :
        v \in {<<Age>>, <<"Gender", "Unknown", Age>>}, m \in AnalysisMethod}
    \cup {AssociationRequest(EmptyRequest, <<"Gender">>, <<Age>>, None, m) :
            m \in {"linear_regression", "anova"}}
    \cup {AssociationRequest(EmptyRequest, <<Age>>, c, None, "linear_regression") :
            c \in {<<"biosample_Purity (Percentage)">>, <<Age>>}}
    \cup {AssociationRequest(EmptyRequest, <<"Gender", "Unknown", Age>>, <<>>, t, "linear_regression") :
            t \in {List(<<Auc, "No Such Trait">>), List(<<>>)}}
    \cup {AssociationRequest(EmptyRequest, v, <<>>, None, "correlation") :
            v \in {<<Age, Age>>, <<Basal>>}}
    \cup {AssociationRequest(Females, <<Age>>, <<>>, None, "linear_regression"),
          AssociationRequest(Females, <<"Gender">>, <<>>, None, "kruskal_wallis"),
          AssociationRequest(Nobody, <<Age>>, <<>>, None, "linear_regression")}

\* the failures the interpreter may raise: at each step of the pair
\* (Age, Basal) and in the test of the pair (Gender, Basal)
Failures ==
    {Failure(Age, Basal, step) : step \in {"dropna", "infer", "test"}}
    \cup {Failure("Gender", Basal, "test")}

Run(request, env) == [request |-> request, env |-> env]

\* every request where statsmodels accepts boolean columns, the regressions
\* on Gender where it does not, and one request with each failure
AssociationRuns ==
    {Run(r, Environment(TRUE, None)) : r \in AssociationRequests}
    \cup {Run(r, Environment(FALSE, None)) :
            r \in {q \in AssociationRequests :
                     /\ q.analysis_method \in {"linear_regression", "logistic_regression"}
                     /\ q.filter_criteria = EmptyRequest
                     /\ q.traits = None
                     /\ q.control_variables = <<>>
                     /\ Len(q.variables_of_interest) # 1}}
    \cup {Run(AssociationRequest(EmptyRequest, <<"Gender", "Unknown", Age>>, <<>>, None, "linear_regression"),
              Environment(TRUE, f)) : f \in Failures}

Alien == <<"z", "z">>

\* the external data of the donors ids: variable name -> a value per donor
ExternalData(ids, names, missing) ==
    Dict(ids, [i \in DOMAIN ids |->
                 IF i \in missing THEN Dict(<<>>, <<>>)
                 ELSE Dict(names, [j \in DOMAIN names |-> Num(i + j)])])

FirstDonors(n) == [i \in 1..n |-> AssocId(i)]

ExternalMaps ==
    {None, Dict(<<>>, <<>>),
     ExternalData(<<Alien>>, <<"GeneX">>, {}),
     ExternalData(<<AssocId(1), Alien, AssocId(2)>>, <<"GeneX">>, {}),
     ExternalData(FirstDonors(MaxAssocDonors - 1), <<"GeneX">>, {}),
     ExternalData(FirstDonors(MaxAssocDonors - 1), <<"GeneX">>, {3}),
     ExternalData(FirstDonors(MaxAssocDonors - 1), <<"GeneX", Age>>, {}),
     ExternalData(FirstDonors(MaxAssocDonors - 1), <<Basal, "GeneX">>, {}),
     ExternalData(FirstDonors(MaxAssocDonors - 1), <<"GeneX", "RRID">>, {})}

ExternalRequests ==
    {ExternalDataRequest(EmptyRequest, e, <<Age, "GeneX">>, <<>>, None, "linear_regression") :
        e \in ExternalMaps}
    \cup {ExternalDataRequest(f, ExternalData(FirstDonors(MaxAssocDonors - 1), <<"GeneX">>, {}),
                              <<"GeneX">>, <<>>, t, "correlation") :
            f \in {EmptyRequest, Females, Nobody}, t \in {List(<<Auc>>)}}

ExternalRuns ==
    {Run(r, Environment(TRUE, None)) : r \in ExternalRequests}
    \cup {Run(ExternalDataRequest(EmptyRequest,
                                  ExternalData(FirstDonors(MaxAssocDonors - 1), <<"GeneX">>, {}),
                                  <<"GeneX">>, <<>>, None, "linear_regression"),
              Environment(TRUE, Failure("GeneX", Basal, step))) : step \in {"infer", "test"}}

NextAssoc ==
    \/ load_all
    \/ \E run \in AssociationRuns : run_association_analysis(run.request, run.env)
    \/ \E run \in ExternalRuns : run_external_data_analysis(run.request, run.env)

SpecAssoc == InitAssoc /\ [][NextAssoc]_vars

(***************************************************************************)
(* Properties of the association engine (specification SpecAssoc).         *)
(***************************************************************************)
RunOps == {"run_association_analysis", "run_external_data_analysis"}

\* a run returned its results and its summary
Analysed == call.op \in RunOps /\ call.raised = "none"

\* the frame apply_filters gave to the run
FilteredFrame == apply_filters_on(_merged_df, call.request.filter_criteria)

\* the traits of the request, or every trait of the Trait source
RequestedTraits ==
    IF call.request.traits = None \/ call.request.traits.v = <<>>
    THEN LET T(c) == c \in _traits_df.columns IN SelectSeq(TraitOrder, T)
    ELSE call.request.traits.v

\* the rows of a frame with no null among those of the given names that are
\* columns of the frame
CompleteRows(frame, names) ==
    {i \in DOMAIN frame.rows : \A c \in names \cap frame.columns : ~isna(frame.rows[i][c])}

PairRows(frame, r) ==
    CompleteRows(frame, {r.trait, r.variable} \cup Elements(call.request.control_variables))

\* the groups of the variable with at least two of the rows
UsableGroups(frame, r) ==
    {g \in {frame.rows[i][r.variable] : i \in PairRows(frame, r)} :
        Cardinality({i \in PairRows(frame, r) : frame.rows[i][r.variable] = g}) >= 2}

GroupMethods == {"anova", "kruskal_wallis"}

\* C13: no result exists for a pair with fewer than 10 rows without a null
\* among the trait, the variable and the controls, nor, for ANOVA and
\* Kruskal-Wallis, for a pair with fewer than 2 usable groups; a run that
\* skips such pairs raises nothing.
C13_MinimumN ==
    /\ Analysed =>
          \A i \in DOMAIN call.result.results :
             LET r == call.result.results[i]
             IN /\ Cardinality(PairRows(call.frame, r)) >= 10
                /\ call.request.analysis_method \in GroupMethods =>
                      Cardinality(UsableGroups(call.frame, r)) >= 2
    /\ (/\ call.op = "run_association_analysis"
        /\ _merged_df # None
        /\ call.env.failure = None) => call.raised = "none"

\* an ANOVA with a control: the pairs of one trait have 9 complete rows and
\* no result, the pairs of the other have a result
C13_Witness ==
    /\ Analysed
    /\ call.request.analysis_method = "anova"
    /\ call.request.control_variables # <<>>
    /\ call.result.results # <<>>
    /\ \E t \in Elements(RequestedTraits) \cap call.frame.columns :
          /\ Cardinality(CompleteRows(call.frame,
                 {t, "Gender"} \cup Elements(call.request.control_variables))) = 9
          /\ \A i \in DOMAIN call.result.results : call.result.results[i].trait # t

\* the pairs of two lists, the first list varying slowest
CrossProduct(xs, ys) == Flatten([i \in DOMAIN xs |-> [j \in DOMAIN ys |-> <<xs[i], ys[j]>>]])

\* the number of results of a pair is at most the number of times the pair
\* is in the list of pairs
AtMostOnePerPair(results, pairs) ==
    \A i \in DOMAIN results :
        LET p == <<results[i].variable, results[i].trait>>
        IN Cardinality({j \in DOMAIN results : <<results[j].variable, results[j].trait>> = p})
              <= Occurrences(p, pairs)

\* C14: every result is of a pair of variables x traits whose variable and
\* trait are columns of the analysed frame, there is at most one result per
\* pair of the cross-product, and there are at most (variables present) x
\* (traits present) results; absent names raise nothing.
C14_CrossProduct ==
    Analysed =>
        LET results == call.result.results
            variables == call.request.variables_of_interest
            InFrame(c) == c \in call.frame.columns
        IN /\ \A i \in DOMAIN results :
                 /\ results[i].variable \in Elements(variables) \cap call.frame.columns
                 /\ results[i].trait \in Elements(RequestedTraits) \cap call.frame.columns
           /\ AtMostOnePerPair(results, CrossProduct(variables, RequestedTraits))
           /\ Len(results) <= Len(SelectSeq(variables, InFrame)) * Len(SelectSeq(RequestedTraits, InFrame))

\* a request names a variable and a trait the frame lacks, and results exist
\* for the other pairs
C14_Witness ==
    /\ Analysed
    /\ call.result.results # <<>>
    /\ \E v \in Elements(call.request.variables_of_interest) : v \notin call.frame.columns
    /\ \E t \in Elements(RequestedTraits) : t \notin call.frame.columns
    /\ \E t \in Elements(TraitOrder) : t \in call.frame.columns /\ t \notin Elements(RequestedTraits)

\* a run whose frame was built and that had pairs to evaluate
Evaluated ==
    /\ call.op \in RunOps
    /\ _merged_df # None
    /\ call.raised \in {"none", "MemoryError"}
    /\ call.raised = "none" => "message" \notin DOMAIN call.result.summary

\* the results of the same run when nothing fails
Unfailing(frame) ==
    Loops(frame, call.request, _traits_df, Environment(TRUE, None)).results

NotOf(failure, results) ==
    LET Other(r) == ~(r.variable = failure.variable /\ r.trait = failure.trait)
    IN SelectSeq(results, Other)

\* the frame of a run, also when the run raised
FrameOf ==
    IF call.op = "run_association_analysis" THEN FilteredFrame
    ELSE MergeOn(FilteredFrame, reset_index(from_dict(call.request.external_data)), "RRID")

Dispatched == {"linear_regression", "correlation", "anova", "kruskal_wallis"}

\* C16: the method tag of every result is the requested method when it is
\* linear_regression, correlation, anova or kruskal_wallis; for any other
\* method the run returns what it returns for linear_regression, tagged
\* linear_regression.
C16_MethodDispatch ==
    Analysed =>
        LET method == call.request.analysis_method
            results == call.result.results
        IN IF method \in Dispatched
           THEN \A i \in DOMAIN results : results[i].method = method
           ELSE /\ \A i \in DOMAIN results : results[i].method = "linear_regression"
                /\ "message" \notin DOMAIN call.result.summary =>
                      results = Loops(call.frame,
                                      [call.request EXCEPT !.analysis_method = "linear_regression"],
                                      _traits_df, call.env).results

\* a logistic_regression request returned results
C16_Witness ==
    /\ Analysed
    /\ call.request.analysis_method = "logistic_regression"
    /\ Len(call.result.results) >= 2

\* C17: the summary reports the row count of the whole frame, the count of
\* traits and the count of variables, an absent trait and an absent variable
\* being counted the same way: both counts are of the names present in the
\* frame, or both are of the names requested.
C17_SummaryCounts ==
    (Analysed /\ "message" \notin DOMAIN call.result.summary) =>
        LET summary == call.result.summary
            variables == call.request.variables_of_interest
            InFrame(c) == c \in call.frame.columns
        IN /\ summary.n_samples = len(call.frame)
           /\ \/ /\ summary.traits_analyzed = Len(SelectSeq(RequestedTraits, InFrame))
                 /\ summary.variables_analyzed = Len(SelectSeq(variables, InFrame))
              \/ /\ summary.traits_analyzed = Len(RequestedTraits)
                 /\ summary.variables_analyzed = Len(variables)

\* a Python string that is the name of a variable
VariableName(name) == [name |-> name]

\* the names of the values the external map carries
InjectedNames(external_data) ==
    UNION {Elements(external_data.vals[i].keys) : i \in DOMAIN external_data.vals}

\* C18: the summary's external_variables is the list of the injected variable
\* names, not of the donor identifiers that key the map.
C18_ExternalVariables ==
    (Analysed /\ "external_variables" \in DOMAIN call.result.summary) =>
        Elements(call.result.summary.external_variables) =
            {VariableName(n) : n \in InjectedNames(call.request.external_data)}

\* a run that joined the external map to the filtered frame
Joined ==
    /\ call.op = "run_external_data_analysis"
    /\ call.raised = "none"
    /\ FilteredFrame.rows # <<>>
    /\ call.request.external_data # None
    /\ call.request.external_data.keys # <<>>

C20_ColumnsPreserved ==
    (/\ call.op = "run_external_data_analysis"
     /\ _merged_df # None
     /\ call.env.failure = None
     /\ FilteredFrame.rows # <<>>
     /\ call.request.external_data # None
     /\ call.request.external_data.keys # <<>>) =>
        /\ call.raised = "none"
        /\ FilteredFrame.columns \subseteq call.frame.columns
        /\ InjectedNames(call.request.external_data) \subseteq call.frame.columns
        /\ \A i \in DOMAIN call.frame.rows : \E j \in DOMAIN FilteredFrame.rows :
              \A c \in FilteredFrame.columns : call.frame.rows[i][c] = FilteredFrame.rows[j][c]

\* the external map of a run is None or has no key
NoExternalMap ==
    call.request.external_data = None \/ call.request.external_data.keys = <<>>

\* the external map was joined to the filtered frame and no donor matched
EmptyJoin ==
    /\ ~NoExternalMap
    /\ call.raised = "none"
    /\ call.frame.rows = <<>>

\* C21: a run whose filter yields zero rows, an external run whose map is
\* None or empty, and an external run whose join yields zero rows return an
\* empty result list and a summary with n_samples = 0, and raise nothing.
C21_EmptyIsNotAnError ==
    (/\ call.op \in RunOps
     /\ _merged_df # None
     /\ \/ FilteredFrame.rows = <<>>
        \/ call.op = "run_external_data_analysis" /\ (NoExternalMap \/ EmptyJoin)) =>
        /\ call.raised = "none"
        /\ call.result.results = <<>>
        /\ call.result.summary.n_samples = 0

\* donors passed the filter, the map has keys, and the join has no row
C21_Witness ==
    /\ call.op = "run_external_data_analysis"
    /\ _merged_df # None
    /\ FilteredFrame.rows # <<>>
    /\ EmptyJoin
    /\ call.result.results = <<>>
    /\ call.result.summary.n_samples = 0

(***************************************************************************)
(* The reload runs: the application starts (main.lifespan), serves          *)
(* requests, and a thread reloads the sources while it serves.  The files   *)
(* are replaced between reloads.                                            *)
(***************************************************************************)
\* a Trait file of other donors and other values than AssocTraitFile
ReloadTraitFile ==
    DataFrame(AssocTraitColumns,
              [i \in 1..(MaxAssocDonors - 1) |->
                 AssocTraitRow(AssocId(i), DecimalStr(i + 1), DecimalStr(i))])

\* two versions of the sources, and one whose Trait file is gone
ReloadFiles ==
    {[donor |-> AssocDonorFile(MaxAssocDonors, 0, "two"),
      biosample |-> FilterBiosampleFile, traits |-> AssocTraitFile],
     [donor |-> AssocDonorFile(MaxAssocDonors - 1, 1, "one"),
      biosample |-> FilterBiosampleFile, traits |-> ReloadTraitFile],
     [donor |-> AssocDonorFile(MaxAssocDonors - 1, 1, "one"),
      biosample |-> FilterBiosampleFile, traits |-> MISSING]}

\* the files at settings.donor_metadata_path, biosample_metadata_path and
\* traits_path are replaced while no reload runs
update_files ==
    /\ pc = "idle"
    /\ files' \in ReloadFiles \ {files}
    /\ UNCHANGED <<_instance, _initialized, _donor_df, _biosample_df, _traits_df, _merged_df, pc, call>>

InitReload ==
    /\ files \in ReloadFiles
    /\ _instance = Instance
    /\ _initialized = TRUE
    /\ _donor_df = None
    /\ _biosample_df = None
    /\ _traits_df = None
    /\ _merged_df = None
    /\ pc = "lifespan"
    /\ call = Call("DataLoader", None, "none", None)

ReloadAssociation == AssociationRequest(EmptyRequest, <<Age>>, <<>>, None, "correlation")

ReloadExternal ==
    ExternalDataRequest(EmptyRequest, ExternalData(FirstDonors(MaxAssocDonors - 1), <<"GeneX">>, {}),
                        <<"GeneX">>, <<>>, None, "linear_regression")

NextReload ==
    \/ lifespan
    \/ Serving /\ DataLoader
    \/ Serving /\ donor_df
    \/ Serving /\ biosample_df
    \/ Serving /\ traits_df
    \/ Serving /\ read_merged_df
    \/ Serving /\ \E filter_request \in {EmptyRequest, Females} : apply_filters(filter_request)
    \/ Serving /\ run_association_analysis(ReloadAssociation, Environment(TRUE, None))
    \/ Serving /\ run_external_data_analysis(ReloadExternal, Environment(TRUE, None))
    \/ reload_clear
    \/ reload_load
    \/ update_files

SpecReload == InitReload /\ [][NextReload]_vars

(***************************************************************************)
(* Properties of the shared state (specification SpecReload).              *)
(***************************************************************************)
\* the Analysis Frame load_all builds from the files f
FrameOfFiles(f) ==
    _create_merged_dataframe(_load_donor_metadata(f.donor), _load_biosample_metadata(f.biosample),
                             _load_traits(f.traits), None)

\* the complete frames: those of the versions of the sources
CompleteFrames == {FrameOfFiles(f) : f \in {g \in ReloadFiles : g.traits # MISSING}}

\* a reload is running
Reloading == pc \notin {"lifespan", "exit", "idle"}

\* the frame the last request read from the loader: None when it got none
ObservedFrame ==
    IF call.raised # "none" THEN None
    ELSE IF call.op = "run_association_analysis" THEN call.frame
    ELSE call.result

\* C22: a request that reads the shared frame while a reload runs gets the
\* complete frame of the old sources or the complete frame of the new ones,
\* never None, a mix, or a frame of half-reloaded sources.
C22_AtomicSwap ==
    (/\ Reloading
     /\ \/ call.op \in {"merged_df", "run_association_analysis"}
        \/ call.op = "apply_filters" /\ call.request = EmptyRequest) =>
        ObservedFrame \in CompleteFrames

RequestOps == {"apply_filters", "run_association_analysis", "run_external_data_analysis"}

\* a step of apply_filters, run_association_analysis or
\* run_external_data_analysis: the reload thread and the files do not move
RequestStep == pc' = pc /\ files' = files /\ call'.op \in RequestOps

PropertyReads == {"donor_df", "biosample_df", "traits_df", "merged_df"}

\* the field a property returns
FieldOf(op) ==
    IF op = "donor_df" THEN _donor_df
    ELSE IF op = "biosample_df" THEN _biosample_df
    ELSE IF op = "traits_df" THEN _traits_df
    ELSE _merged_df

\* load_all has completed: the collections and the frame are there
Loaded == _donor_df # None /\ _biosample_df # None /\ _traits_df # None /\ _merged_df # None

\* a step of DataLoader() or of a property read
LoaderStep(ops) == pc' = pc /\ files' = files /\ call'.op \in ops

\* a step of the thread that runs reload
ReloadStep == pc' # pc /\ pc # "lifespan"

\* C24: DataLoader() returns the one instance and clears nothing; once
\* load_all has completed, a read of donor_df, biosample_df, traits_df or
\* merged_df loads and merges nothing and returns the cached collection, also
\* when the files have changed; a collection that exists is replaced by a
\* step of reload only; and a reload that completes leaves the frame of the
\* sources as they are: the same row count and donor identifiers as any other
\* build from the same sources.
C24_LoadedOnce ==
    /\ [][LoaderStep({"DataLoader"}) =>
             /\ UNCHANGED <<_instance, _donor_df, _biosample_df, _traits_df, _merged_df>>
             /\ call'.result = _instance]_vars
    /\ [][(Loaded /\ LoaderStep(PropertyReads)) =>
             /\ UNCHANGED <<_donor_df, _biosample_df, _traits_df, _merged_df>>
             /\ call'.raised = "none"
             /\ call'.result = FieldOf(call'.op)]_vars
    /\ [][(\/ _donor_df # None /\ _donor_df' # _donor_df
           \/ _biosample_df # None /\ _biosample_df' # _biosample_df
           \/ _traits_df # None /\ _traits_df' # _traits_df
           \/ _merged_df # None /\ _merged_df' # _merged_df) => ReloadStep]_vars
    /\ [][(pc = "42" /\ pc' = "idle") =>
             /\ len(_merged_df') = len(FrameOfFiles(files))
             /\ Column(_merged_df', "RRID") = Column(FrameOfFiles(files), "RRID")]_vars

\* the files have changed since they were loaded, and a read of merged_df
\* returned the cached frame of the old files
C24_Witness ==
    /\ pc = "idle"
    /\ Loaded
    /\ call.op = "merged_df"
    /\ call.result = _merged_df
    /\ files.traits # MISSING
    /\ len(_merged_df) # len(FrameOfFiles(files))

\* C25: the traits analysed are the members of the caller's trait list that
\* are columns of the frame when the request carries a list, and the trait
\* columns of the Trait source only when it carries none (None).
C25_TraitSelection ==
    (Analysed /\ "message" \notin DOMAIN call.result.summary) =>
        LET expected == IF call.request.traits # None
                        THEN PresentIn(call.request.traits.v, call.frame.columns)
                        ELSE PresentIn(trait_columns(_traits_df), call.frame.columns)
        IN /\ call.result.summary.traits_analyzed = Len(expected)
           /\ \A i \in DOMAIN call.result.results :
                 call.result.results[i].trait \in Elements(expected)

(***************************************************************************)
(* Correlation statistics (AnalysisService._correlation lines 329-336 and  *)
(* app/utils/statistics.py pearson_confidence_interval).  A float is NaN,  *)
(* an infinity or a ratio p/q with q > 0; comparisons with NaN are false.  *)
(* A value z of Fisher's z-space is held as the float e^(2z), so that      *)
(* arctanh, the shift by z_crit * se and tanh are computed on ratios.      *)
(***************************************************************************)
MaxSampleSize == 12
CorrelationSteps == 10

\* the parts of one that exp and sqrt are computed to, and 1.96 in them
Fixed == 100
ZCrit == (196 * Fixed) \div 100

Inf(s) == [k |-> "inf", s |-> s]
Ratio(p, q) == [k |-> "ratio", p |-> p, q |-> q]

\* a <= b
FloatLE(a, b) ==
    IF a.k = "nan" \/ b.k = "nan" THEN FALSE
    ELSE IF a.k = "inf" THEN a.s < 0 \/ (b.k = "inf" /\ b.s > 0)
    ELSE IF b.k = "inf" THEN b.s > 0
    ELSE a.p * b.q <= b.p * a.q

\* the integer part of the square root
isqrt(n) == CHOOSE s \in 0..n : s * s <= n /\ (s + 1) * (s + 1) > n

\* sum of the terms of the series of e^x from the k-th on, in hundredths
RECURSIVE ExpSeries(_, _, _)
ExpSeries(x, k, term) ==
    IF term = 0 THEN 0 ELSE term + ExpSeries(x, k + 1, (term * x) \div (k * Fixed))

\* e^(2 * z_crit * se) with se = 1 / np.sqrt(n - 3): NaN for a negative
\* n - 3, infinite for n = 3
ExpWidth(n) ==
    IF n < 3 THEN NaN
    ELSE IF n = 3 THEN Inf(1)
    ELSE Ratio(ExpSeries((2 * ZCrit * Fixed) \div isqrt((n - 3) * Fixed * Fixed), 1, Fixed), Fixed)

\* np.arctanh(r), as e^(2z) = (1 + r) / (1 - r)
arctanh(r) ==
    IF r.k # "ratio" THEN NaN
    ELSE IF r.p > r.q \/ r.p < 0 - r.q THEN NaN
    ELSE IF r.p = r.q THEN Inf(1)
    ELSE Ratio(r.q + r.p, r.q - r.p)

\* z + sign * z_crit * se, as e^(2z) times or over e^(2 * z_crit * se)
Shift(z, sign, e) ==
    IF z.k = "nan" \/ e.k = "nan" THEN NaN
    ELSE IF e.k = "inf"
         THEN (IF z.k = "inf" THEN (IF sign > 0 THEN z ELSE NaN)
               ELSE IF sign > 0 THEN Inf(1) ELSE Ratio(0, 1))
    ELSE IF z.k = "inf" THEN z
    ELSE IF sign > 0 THEN Ratio(z.p * e.p, z.q * e.q)
    ELSE Ratio(z.p * e.q, z.q * e.p)

\* np.tanh(z) = (e^(2z) - 1) / (e^(2z) + 1)
tanh(z) ==
    IF z.k = "nan" THEN NaN
    ELSE IF z.k = "inf" THEN Ratio(1, 1)
    ELSE Ratio(z.p - z.q, z.p + z.q)

\* pearson_confidence_interval without the guard on n
pearson_confidence_interval_Unguarded(r, n) ==
    [lower |-> tanh(Shift(arctanh(r), -1, ExpWidth(n))),
     upper |-> tanh(Shift(arctanh(r), 1, ExpWidth(n)))]

\* statistics.pearson_confidence_interval(r, n)
pearson_confidence_interval(r, n) ==
    IF n < 4 THEN [lower |-> NaN, upper |-> NaN]
    ELSE [lower |-> tanh(Shift(arctanh(r), -1, ExpWidth(n))),
          upper |-> tanh(Shift(arctanh(r), 1, ExpWidth(n)))]

RECURSIVE SumProduct(_, _)
SumProduct(xs, ys) ==
    IF xs = <<>> THEN 0 ELSE Head(xs) * Head(ys) + SumProduct(Tail(xs), Tail(ys))

\* stats.pearsonr(x, y)[0] to two decimals: NaN when an input is constant
pearsonr(x, y) ==
    LET n == Len(x)
        ones == [i \in DOMAIN x |-> 1]
        cov == n * SumProduct(x, y) - SumProduct(x, ones) * SumProduct(y, ones)
        var_x == n * SumProduct(x, x) - SumProduct(x, ones) * SumProduct(x, ones)
        var_y == n * SumProduct(y, y) - SumProduct(y, ones) * SumProduct(y, ones)
        magnitude == CHOOSE s \in 0..Fixed :
                        /\ s * s * var_x * var_y <= cov * cov * Fixed * Fixed
                        /\ s = Fixed \/ (s + 1) * (s + 1) * var_x * var_y > cov * cov * Fixed * Fixed
    IN IF var_x = 0 \/ var_y = 0 THEN NaN
       ELSE Ratio(IF cov < 0 THEN 0 - magnitude ELSE magnitude, Fixed)

\* the statistics of the result of AnalysisService._correlation: r, n and the
\* interval tanh(arctanh(r) -+ 1.96 / sqrt(n - 3))
correlation_statistics(df, trait, variable) ==
    LET valid_mask(row) == ~(isna(to_numeric(row[variable])) \/ isna(to_numeric(row[trait])))
        valid == SelectSeq(df.rows, valid_mask)
        x == [i \in DOMAIN valid |-> to_numeric(valid[i][variable]).v]
        y == [i \in DOMAIN valid |-> to_numeric(valid[i][trait]).v]
        n == Len(valid)
        z(r) == arctanh(r)
        Interval(r) == [coefficient |-> r, n_samples |-> n,
                        ci_lower |-> tanh(Shift(z(r), -1, ExpWidth(n))),
                        ci_upper |-> tanh(Shift(z(r), 1, ExpWidth(n)))]
    IN At(pearsonr(x, y), Interval)


\* the arguments given to pearson_confidence_interval: r in tenths from
\* below -1 to above 1 or NaN, n from 1 up
Arguments(r, n) == [r |-> r, n |-> n]
IntervalArguments ==
    {Arguments(r, n) : r \in {Ratio(p, CorrelationSteps) : p \in (0 - CorrelationSteps - 1)..(CorrelationSteps + 1)} \cup {NaN},
                       n \in 1..MaxSampleSize}

\* the values of a column by row number
ColumnShapes == {"constant", "alternate", "cycle", "reverse", "gap"}
ShapeCell(shape, i) ==
    IF shape = "constant" THEN Num(1)
    ELSE IF shape = "alternate" THEN Num(i % 2)
    ELSE IF shape = "cycle" THEN Num(i % 3)
    ELSE IF shape = "reverse" THEN Num(2 - (i % 3))
    ELSE IF i = 1 THEN NaN ELSE Num((i * i) % 3)

\* frames of a variable x and a trait y around the minimum sample size
CorrelationFrames ==
    {DataFrame({"x", "y"}, [i \in 1..n |-> [x |-> ShapeCell(sx, i), y |-> ShapeCell(sy, i)]]) :
        n \in (MaxAssocDonors - 2)..MaxAssocDonors, sx \in ColumnShapes, sy \in ColumnShapes}

InitInterval ==
    /\ files = NoFiles
    /\ _instance = Instance
    /\ _initialized = TRUE
    /\ pc = "idle"
    /\ _donor_df = None
    /\ _biosample_df = None
    /\ _traits_df = None
    /\ _merged_df = None
    /\ call \in {Call("Arguments", a, "none", None) : a \in IntervalArguments}
                \cup {Call("DataFrame", df, "none", None) : df \in CorrelationFrames}

\* pearson_confidence_interval(r, n)
interval ==
    /\ call.op = "Arguments"
    /\ call' = Call("pearson_confidence_interval", call.request, "none",
                    pearson_confidence_interval(call.request.r, call.request.n))
    /\ UNCHANGED <<files, _instance, _initialized, pc, _donor_df, _biosample_df, _traits_df, _merged_df>>

\* _analyze_association(df, 'y', 'x', [], 'correlation') and, of its
\* result, the statistics
correlate ==
    /\ call.op = "DataFrame"
    /\ \E result \in {_analyze_association(call.request, "y", "x", <<>>, "correlation", Environment(TRUE, None))} :
          call' = Call("_correlation", call.request, "none",
                       IF result = None THEN None
                       ELSE correlation_statistics(SubFrame(call.request, <<"y", "x">>), "y", "x"))
    /\ UNCHANGED <<files, _instance, _initialized, pc, _donor_df, _biosample_df, _traits_df, _merged_df>>

NextInterval == interval \/ correlate

SpecInterval == InitInterval /\ [][NextInterval]_vars

\* lower <= r <= upper
Encloses(r_lower, r, r_upper) == FloatLE(r_lower, r) /\ FloatLE(r, r_upper)

\* C26: the interval of every correlation result and of every call of
\* pearson_confidence_interval with -1 <= r <= 1 and n >= 4 encloses r, and
\* a correlation result has n >= 10
C26_IntervalEnclosesR ==
    /\ call.op = "pearson_confidence_interval"
          /\ FloatLE(Ratio(-1, 1), call.request.r) /\ FloatLE(call.request.r, Ratio(1, 1))
          /\ call.request.n >= 4
          => Encloses(call.result.lower, call.request.r, call.result.upper)
    /\ call.op = "_correlation" /\ call.result # None
          => /\ call.result.n_samples >= MinSamples
             /\ Encloses(call.result.ci_lower, call.result.coefficient, call.result.ci_upper)

\* the same for the results with a coefficient that is a number
C26_IntervalEnclosesDefinedR ==
    /\ call.op = "pearson_confidence_interval"
          /\ FloatLE(Ratio(-1, 1), call.request.r) /\ FloatLE(call.request.r, Ratio(1, 1))
          /\ call.request.n >= 4
          => Encloses(call.result.lower, call.request.r, call.result.upper)
    /\ call.op = "_correlation" /\ call.result # None /\ call.result.coefficient # NaN
          => /\ call.result.n_samples >= MinSamples
             /\ Encloses(call.result.ci_lower, call.result.coefficient, call.result.ci_upper)


(***************************************************************************)
(* Linear regressions on frames with a column whose name holds the name of *)
(* another: 'Gender Code' beside 'Gender'.                                 *)
(***************************************************************************)
GenderCode == "Gender Code"

\* the levels of Gender: one, two or three
GenderLevels == {<< <<"f">> >>, << <<"f">>, <<"m">> >>, << <<"f">>, <<"m">>, <<"x">> >>}

RegressionCell(c, i, n, levels, ages) ==
    IF c = "Gender" THEN Str(levels[(i % Len(levels)) + 1])
    ELSE IF c = GenderCode THEN Num(i % 2)
    ELSE IF c = Age THEN (IF i = n /\ ages = "gap" THEN NaN ELSE Num(20 + i))
    ELSE Num(i % 3)

\* frames of a trait y, Gender, Gender Code and Age, of sizes around the
\* minimum sample size, the last age null or not
RegressionFrames ==
    {DataFrame({"y", "Gender", GenderCode, Age},
               [i \in 1..n |-> [c \in {"y", "Gender", GenderCode, Age} |-> RegressionCell(c, i, n, levels, ages)]]) :
        n \in (MaxAssocDonors - 1)..MaxAssocDonors, levels \in GenderLevels, ages \in {"full", "gap"}}

Regression(variable, control_variables) == [variable |-> variable, control_variables |-> control_variables]

Regressions ==
    {Regression(v, c) : v \in {"Gender", GenderCode, Age},
                        c \in {<<>>, <<Age>>, <<GenderCode>>, <<"Gender">>, <<Age, GenderCode>>,
                               <<GenderCode, "Gender">>, <<"Unknown">>}}

InitRegression ==
    /\ files = NoFiles
    /\ _instance = Instance
    /\ _initialized = TRUE
    /\ pc = "idle"
    /\ _donor_df = None
    /\ _biosample_df = None
    /\ _traits_df = None
    /\ _merged_df = None
    /\ call \in {Call("DataFrame", df, "none", None) : df \in RegressionFrames}

\* _analyze_association(df, 'y', variable, control_variables,
\* 'linear_regression') and, of its result, the column reported
regress ==
    /\ call.op = "DataFrame"
    /\ \E r \in Regressions :
       \E result \in {_analyze_association(call.request, "y", r.variable, r.control_variables,
                                           "linear_regression", Environment(TRUE, None))} :
          call' = Call("_linear_regression", [df |-> call.request, regression |-> r], "none",
                       [result |-> result,
                        main_var |-> IF result = None \/ result.k = "raise" THEN None
                                     ELSE main_var(SubFrame(call.request, PresentIn(<<"y", r.variable>> \o r.control_variables, call.request.columns)),
                                                   r.variable, r.control_variables)])
    /\ UNCHANGED <<files, _instance, _initialized, pc, _donor_df, _biosample_df, _traits_df, _merged_df>>

NextRegression == regress

SpecRegression == InitRegression /\ [][NextRegression]_vars

Regressed == call.op = "_linear_regression"

\* the variable of interest of the regression made has a single level
SingleLevel ==
    /\ _infer_variable_type(Series(call.request.df, call.request.regression.variable)) = "categorical"
    /\ Cardinality({call.request.df.rows[i][call.request.regression.variable] : i \in DOMAIN call.request.df.rows}) = 1

\* C27: the column a linear regression reports is derived from the variable
\* of interest, never from a control, and a variable of interest with a
\* single level gives no result
C27_ReportsTheVariable ==
    Regressed =>
        /\ call.result.main_var # None => call.result.main_var.col = call.request.regression.variable
        /\ SingleLevel => call.result.result = None


(***************************************************************************)
(* ANOVA and Kruskal-Wallis on frames of a trait y and a variable g.       *)
(***************************************************************************)
GroupShapes == {"pairs", "lone", "odd", "sentinel", "sentinel_rest", "numbers", "singletons"}
TraitShapes == {"numeric", "text", "constant"}

\* the variable by row number: two levels, one level but for the last row,
\* two levels and a third in the last row, the string 'nan' in the first
\* two rows beside two levels or one, numbers, or a level per row
GroupCell(shape, i, n) ==
    IF shape = "pairs" THEN Str(IF i % 2 = 1 THEN <<"a">> ELSE <<"b">>)
    ELSE IF shape = "lone" THEN Str(IF i = n THEN <<"b">> ELSE <<"a">>)
    ELSE IF shape = "odd" THEN Str(IF i = n THEN <<"c">> ELSE IF i % 2 = 1 THEN <<"a">> ELSE <<"b">>)
    ELSE IF shape = "sentinel" THEN Str(IF i <= 2 THEN StrNan ELSE IF i % 2 = 1 THEN <<"a">> ELSE <<"b">>)
    ELSE IF shape = "sentinel_rest" THEN Str(IF i <= 2 THEN StrNan ELSE <<"a">>)
    ELSE IF shape = "numbers" THEN Num(i % 2)
    ELSE Str(DecimalStr(i))

\* the trait by row number: numbers, numbers after two cells of text, or
\* the same number in every row
TraitCell(shape, i) ==
    IF shape = "text" /\ i <= 2 THEN Str(<<"x">>)
    ELSE IF shape = "constant" THEN Num(1)
    ELSE Num(i % 3)

GroupFrames ==
    {DataFrame({"y", "g"}, [i \in 1..n |-> [y |-> TraitCell(ty, i), g |-> GroupCell(sg, i, n)]]) :
        n \in (MaxAssocDonors - 2)..MaxAssocDonors, sg \in GroupShapes, ty \in TraitShapes}

InitGroups ==
    /\ files = NoFiles
    /\ _instance = Instance
    /\ _initialized = TRUE
    /\ pc = "idle"
    /\ _donor_df = None
    /\ _biosample_df = None
    /\ _traits_df = None
    /\ _merged_df = None
    /\ call \in {Call("DataFrame", df, "none", None) : df \in GroupFrames}

\* the statistics a result reports as None
null_statistics(method) ==
    IF method \in {"anova", "kruskal_wallis"} THEN {"std_error", "ci_lower", "ci_upper", "r_squared"}
    ELSE {}

\* the values given to the test are one and the same number
AllIdentical(df, trait, variable) ==
    LET kept == group_data(df, trait, variable)
    IN Cardinality({to_numeric(df.rows[i][trait]) : i \in {j \in DOMAIN df.rows :
                        /\ astype_str(df.rows[j][variable]) \in kept
                        /\ ~isna(to_numeric(df.rows[j][trait]))}}) = 1

\* _analyze_association(df, 'y', 'g', [], method) for the two group tests.
\* stats.kruskal raises ValueError('All numbers are identical in kruskal')
\* in the scipy versions that check the tie correction, and returns NaN in
\* the others: the except clause of _analyze_association turns the exception
\* into no result
group_test ==
    /\ call.op = "DataFrame"
    /\ \E method \in {"anova", "kruskal_wallis"}, kruskal_raises \in BOOLEAN :
       \E out \in {_analyze_association(call.request, "y", "g", <<>>, method, Environment(TRUE, None))} :
       \E raised \in {/\ out # None
                      /\ method = "kruskal_wallis"
                      /\ kruskal_raises
                      /\ AllIdentical(SubFrame(call.request, <<"y", "g">>), "y", "g")} :
          call' = Call("group_test", [df |-> call.request, method |-> method], "none",
                       [result |-> IF raised THEN None ELSE out,
                        raised |-> raised,
                        nulls |-> IF raised \/ out = None THEN {} ELSE null_statistics(out.method)])
    /\ UNCHANGED <<files, _instance, _initialized, pc, _donor_df, _biosample_df, _traits_df, _merged_df>>

NextGroups == group_test

SpecGroups == InitGroups /\ [][NextGroups]_vars

\* a group test was made on a frame of at least 10 rows
GroupTested == call.op = "group_test" /\ len(call.request.df) >= MinSamples

\* the rows of the group named name whose trait is a number
Members(df, name) ==
    {i \in DOMAIN df.rows : astype_str(df.rows[i].g) = name /\ to_numeric(df.rows[i].y) # NaN}

\* the groups of at least 2 members that are not named 'nan'
Retained(df) ==
    {name \in {astype_str(df.rows[i].g) : i \in DOMAIN df.rows} :
        name # StrNan /\ Cardinality(Members(df, name)) >= 2}

RetainedRows(df) == UNION {Members(df, name) : name \in Retained(df)}

\* the result reports the retained rows and no standard error, interval
\* or r squared
ReportsRetained ==
    call.result.result # None =>
        /\ call.result.result.n_samples = Cardinality(RetainedRows(call.request.df))
        /\ call.result.result.method = call.request.method
        /\ call.result.nulls = {"std_error", "ci_lower", "ci_upper", "r_squared"}

\* C28: a group test gives a result if and only if at least 2 groups of at
\* least 2 members, the group 'nan' aside, remain; the result reports the
\* total size of these groups and no standard error, interval or r squared
C28_GroupingPolicy ==
    GroupTested =>
        /\ call.result.result # None <=> Cardinality(Retained(call.request.df)) >= 2
        /\ ReportsRetained

\* C28 amended: ... if and only if at least 2 groups remain and the test
\* does not raise
C28_GroupingPolicyUnlessRaised ==
    GroupTested =>
        /\ call.result.result # None <=>
              Cardinality(Retained(call.request.df)) >= 2 /\ ~call.result.raised
        /\ call.result.raised => call.request.method = "kruskal_wallis"
        /\ ReportsRetained

\* a result of a frame with a group 'nan' of 2 rows and a result of a
\* frame with a group of 1 row
C28_Witness ==
    /\ GroupTested
    /\ call.result.result # None
    /\ \E name \in {astype_str(call.request.df.rows[i].g) : i \in DOMAIN call.request.df.rows} :
          /\ name \notin Retained(call.request.df)
          /\ Cardinality(Members(call.request.df, name)) >= 2


(***************************************************************************)
(* The sample sizes the results report (specification SpecAssoc).          *)
(***************************************************************************)
\* C29: every result of a run reports at least 10 samples and no more than
\* the rows of the frame the summary reports
C29_SampleSizes ==
    Analysed =>
        \A i \in DOMAIN call.result.results :
            /\ call.result.results[i].n_samples >= MinSamples
            /\ call.result.results[i].n_samples <= call.result.summary.n_samples


(***************************************************************************)
(* Independence of the pairs (specification SpecAssoc).                    *)
(***************************************************************************)
\* the results of the run of the same request with one variable and one
\* trait: none when that run raises
AloneResults(frame, pair) ==
    LET alone == Loops(frame,
                       [call.request EXCEPT !.variables_of_interest = <<pair[1]>>,
                                            !.traits = List(<<pair[2]>>)],
                       _traits_df, call.env)
    IN IF alone.raised # "none" THEN <<>> ELSE alone.results

\* the results of each pair of the request alone, variable by variable in
\* request order, traits in trait-list order
ExpectedResults(frame) ==
    LET pairs == CrossProduct(PresentIn(call.request.variables_of_interest, frame.columns),
                              PresentIn(RequestedTraits, frame.columns))
        Alone(pair) == AloneResults(frame, pair)
    IN Flatten([i \in DOMAIN pairs |-> At(pairs[i], Alone)])

\* the exception that left the run was raised outside the try block of
\* _analyze_association, in the evaluation of a pair of the request
AbortedOutsideTry ==
    /\ call.env.failure # None
    /\ call.env.failure.step \in {"dropna", "infer"}
    /\ call.env.failure.variable \in Elements(call.request.variables_of_interest)
    /\ call.env.failure.trait \in Elements(RequestedTraits)

====
